---------------------------- MODULE Spec2Model ----------------------------
(***************************************************************************)
(* A model of the ai-email envelope encryption (encrypt / decrypt /        *)
(* encryptBatch / decryptBatch / validateEncryptedData), of the passphrase *)
(* vault of keygen.js (encryptPrivateKey / decryptPrivateKey / saveKeys /  *)
(* loadKeys) and of the server handlers that consume them.                 *)
(*                                                                         *)
(* Byte strings are sequences over 0..255 and JavaScript strings are       *)
(* sequences of UTF-16 code units, so that the conversions of the code     *)
(* (base64, hex, UTF-8, JSON) are computed and not assumed.                *)
(*                                                                         *)
(* The primitives of the libraries are replaced by small functions with    *)
(* the same interface and the same algebra:                                *)
(*   x25519             exponentiation in the multiplicative group mod 23, *)
(*                      keys being 32-byte little-endian encodings;        *)
(*   chacha20-poly1305                                                     *)
(*   and aes-256-gcm    a keystream XOR-ed onto the data, and a 16-byte    *)
(*                      tag over key, iv and ciphertext that changes when  *)
(*                      any single bit of them changes;                    *)
(*   pbkdf2             a 32-byte key that changes when the passphrase or  *)
(*                      any single bit of the salt changes.                *)
(* What the code checks (lengths, tags, the calls it makes and the calls   *)
(* it does not make) is kept as in the source.                             *)
(***************************************************************************)
EXTENDS Integers, Sequences, FiniteSets, TLC

\* ------------------------------------------------------------ constants
\* x25519 keys and shared secrets are 32 bytes
KeyLen == 32
\* crypto.randomBytes(12): the chacha20-poly1305 nonce
NonceLen == 12
\* ciphertext.slice(-16): the Poly1305 / GCM tag
TagLen == 16
\* publicKey.slice(0, 8): the key id
KeyIdLen == 8
\* generateSalt: crypto.randomBytes(32)
SaltLen == 32
\* crypto.randomBytes(16): the aes-256-gcm iv
IvLen == 16

\* --------------------------------------------------------------- bounds
\* random values (keys, nonces, salts) are drawn from seeds 1..MaxSeed
MaxSeed == 2
\* plaintexts have at most MaxPlainLen code units or bytes
MaxPlainLen == 2
\* Date.now() returns a value in 0..MaxClock
MaxClock == 1
\* encryptBatch and decryptBatch are given at most MaxBatch elements
MaxBatch == 2
\* at most MaxMail messages arrive in the mailbox
MaxMail == 2
\* the store is filled up to MaxStore elements
MaxStore == 2

\* the encrypt calls of one sequence
MaxCalls == 2

\* ---------------------------------------------------------- byte helpers
Min(a, b) == IF a < b THEN a ELSE b

Max(a, b) == IF a < b THEN b ELSE a

\* bit k of a ^ b, in its place
BitXor(a, b, k) == ((((a \div k) % 2) + ((b \div k) % 2)) % 2) * k

\* a ^ b on bytes
Xor8(a, b) ==
  BitXor(a, b, 1) + BitXor(a, b, 2) + BitXor(a, b, 4) + BitXor(a, b, 8)
    + BitXor(a, b, 16) + BitXor(a, b, 32) + BitXor(a, b, 64)
    + BitXor(a, b, 128)

\* buf.slice(from, to) with 0-based, end-exclusive, already normalised indices
Slice(buf, from, to) ==
  IF to <= from THEN <<>> ELSE SubSeq(buf, from + 1, Min(to, Len(buf)))

\* buf.slice(-n)
SliceLast(buf, n) == Slice(buf, Max(Len(buf) - n, 0), Len(buf))

\* buf.slice(0, -n)
SliceButLast(buf, n) == Slice(buf, 0, Max(Len(buf) - n, 0))

\* the byte string with bit `bit` of byte `i` (1-based) flipped
FlipBit(buf, i, bit) == [buf EXCEPT ![i] = Xor8(@, 2 ^ bit)]

\* the sequence f with its elements computed once
Array(f) == SubSeq(f, 1, Len(f))

RECURSIVE Flatten(_)
\* the concatenation of a sequence of sequences (by halves)
Flatten(ss) ==
  IF Len(ss) = 0 THEN <<>>
  ELSE IF Len(ss) = 1 THEN ss[1]
  ELSE Flatten(SubSeq(ss, 1, Len(ss) \div 2))
         \o Flatten(SubSeq(ss, Len(ss) \div 2 + 1, Len(ss)))

RECURSIVE SumMod(_, _)
\* the sum of a sequence of numbers modulo m (by halves)
SumMod(ns, m) ==
  IF Len(ns) = 0 THEN 0
  ELSE IF Len(ns) = 1 THEN ns[1] % m
  ELSE (SumMod(SubSeq(ns, 1, Len(ns) \div 2), m)
          + SumMod(SubSeq(ns, Len(ns) \div 2 + 1, Len(ns)), m)) % m

RECURSIVE PowMod(_, _, _)
PowMod(b, e, m) ==
  IF e = 0 THEN 1 % m
  ELSE IF e % 2 = 0 THEN PowMod((b * b) % m, e \div 2, m)
  ELSE (b * PowMod((b * b) % m, e \div 2, m)) % m

\* the little-endian integer held by buf, modulo m
LEmod(buf, m) ==
  SumMod(Array([i \in 1..Len(buf) |-> buf[i] * PowMod(256, i - 1, m)]), m)

\* a digest of a byte string: sum of bytes with odd weights, modulo 256
SumW(buf) == SumMod(Array([i \in 1..Len(buf) |-> buf[i] * (2 * i - 1)]), 256)

\* results of operations that may throw
Return(v) == [ok |-> TRUE, value |-> v, error |-> ""]

Throw(e) == [ok |-> FALSE, value |-> <<>>, error |-> e]

\* --------------------------------------------------------------- UTF-8
IsHigh(u) == u >= 55296 /\ u <= 56319

IsLow(u) == u >= 56320 /\ u <= 57343

\* unit i of a string is the first half of a surrogate pair
PairAt(units, i) ==
  IsHigh(units[i]) /\ i < Len(units) /\ IsLow(units[i + 1])

\* unit i of a string is a surrogate outside a pair
LoneAt(units, i) ==
  \/ IsHigh(units[i]) /\ ~PairAt(units, i)
  \/ IsLow(units[i]) /\ ~(i > 1 /\ IsHigh(units[i - 1]))

\* the UTF-8 bytes of a code point
Utf8Bytes(cp) ==
  IF cp < 128 THEN <<cp>>
  ELSE IF cp < 2048 THEN <<192 + (cp \div 64), 128 + (cp % 64)>>
  ELSE IF cp < 65536
    THEN <<224 + (cp \div 4096), 128 + ((cp \div 64) % 64), 128 + (cp % 64)>>
  ELSE <<240 + (cp \div 262144), 128 + ((cp \div 4096) % 64),
         128 + ((cp \div 64) % 64), 128 + (cp % 64)>>

\* new TextEncoder().encode(str): a lone surrogate becomes U+FFFD
TextEncoder_encode(units) ==
  Flatten(Array([i \in 1..Len(units) |->
             IF PairAt(units, i)
               THEN Utf8Bytes(65536 + (units[i] - 55296) * 1024
                                + (units[i + 1] - 56320))
             ELSE IF LoneAt(units, i) THEN Utf8Bytes(65533)
             ELSE IF IsLow(units[i]) THEN <<>>
             ELSE Utf8Bytes(units[i])]))

\* the code units of a code point
Units(cp) ==
  IF cp < 65536 THEN <<cp>>
  ELSE <<55296 + ((cp - 65536) \div 1024), 56320 + ((cp - 65536) % 1024)>>

IsCont(buf, i, lo, hi) == i <= Len(buf) /\ buf[i] >= lo /\ buf[i] <= hi

\* one step of the UTF-8 decoder of the platform at byte i: the code units it
\* emits and the number of bytes it consumes; a maximal ill-formed
\* subsequence becomes one U+FFFD
DecodeAt(buf, i) ==
  LET b == buf[i]
      lo2 == IF b = 224 THEN 160 ELSE IF b = 240 THEN 144 ELSE 128
      hi2 == IF b = 237 THEN 159 ELSE IF b = 244 THEN 143 ELSE 191
      need == IF b >= 194 /\ b <= 223 THEN 1
              ELSE IF b >= 224 /\ b <= 239 THEN 2
              ELSE IF b >= 240 /\ b <= 244 THEN 3 ELSE 0
      got == IF need = 0 \/ ~IsCont(buf, i + 1, lo2, hi2) THEN 0
             ELSE IF need = 1 \/ ~IsCont(buf, i + 2, 128, 191) THEN 1
             ELSE IF need = 2 \/ ~IsCont(buf, i + 3, 128, 191) THEN 2
             ELSE 3
  IN IF b < 128 THEN [units |-> <<b>>, len |-> 1]
     ELSE IF need = 0 \/ got < need THEN [units |-> <<65533>>, len |-> got + 1]
     ELSE IF need = 1
       THEN [units |-> Units((b - 192) * 64 + (buf[i + 1] - 128)), len |-> 2]
     ELSE IF need = 2
       THEN [units |-> Units((b - 224) * 4096 + (buf[i + 1] - 128) * 64
                               + (buf[i + 2] - 128)),
             len |-> 3]
     ELSE [units |-> Units((b - 240) * 262144 + (buf[i + 1] - 128) * 4096
                             + (buf[i + 2] - 128) * 64 + (buf[i + 3] - 128)),
           len |-> 4]

\* the decoder takes a step at byte i: i is not inside the step of an
\* earlier byte (only bytes 0x80..0xBF can be)
StepAt(buf, i) ==
  \/ buf[i] < 128
  \/ buf[i] > 191
  \/ ~\E j \in Max(1, i - 3)..(i - 1) :
        (buf[j] < 128 \/ buf[j] > 191) /\ DecodeAt(buf, j).len > i - j

\* buf.toString('utf8') and the 'utf8' output encoding of a decipher
Utf8ToString(buf) ==
  Flatten(Array([i \in 1..Len(buf) |->
             IF StepAt(buf, i) THEN DecodeAt(buf, i).units ELSE <<>>]))

\* new TextDecoder().decode(buf): ignoreBOM is false, a leading BOM is dropped
TextDecoder_decode(buf) ==
  IF Len(buf) >= 3 /\ SubSeq(buf, 1, 3) = <<239, 187, 191>>
    THEN Utf8ToString(SubSeq(buf, 4, Len(buf)))
  ELSE Utf8ToString(buf)

\* -------------------------------------------------------------- base64
\* the character of a 6-bit value: A-Z a-z 0-9 + /
B64Char(v) ==
  IF v < 26 THEN 65 + v
  ELSE IF v < 52 THEN 97 + (v - 26)
  ELSE IF v < 62 THEN 48 + (v - 52)
  ELSE IF v = 62 THEN 43 ELSE 47

\* the 6-bit value of a character, -1 for a character outside the alphabet
\* (- and _ are read as + and /)
B64Index(c) ==
  IF c >= 65 /\ c <= 90 THEN c - 65
  ELSE IF c >= 97 /\ c <= 122 THEN c - 97 + 26
  ELSE IF c >= 48 /\ c <= 57 THEN c - 48 + 52
  ELSE IF c = 43 \/ c = 45 THEN 62
  ELSE IF c = 47 \/ c = 95 THEN 63
  ELSE -1

\* the four characters of the group of up to three bytes that starts at i
B64Group(buf, i) ==
  LET n == Len(buf) - i + 1
  IN IF n = 1
       THEN <<B64Char(buf[i] \div 4), B64Char((buf[i] % 4) * 16), 61, 61>>
     ELSE IF n = 2
       THEN <<B64Char(buf[i] \div 4),
              B64Char((buf[i] % 4) * 16 + (buf[i + 1] \div 16)),
              B64Char((buf[i + 1] % 16) * 4), 61>>
     ELSE <<B64Char(buf[i] \div 4),
            B64Char((buf[i] % 4) * 16 + (buf[i + 1] \div 16)),
            B64Char((buf[i + 1] % 16) * 4 + (buf[i + 2] \div 64)),
            B64Char(buf[i + 2] % 64)>>

\* Buffer.from(data).toString('base64')
base64Encode(data) ==
  Flatten(Array([g \in 1..((Len(data) + 2) \div 3) |-> B64Group(data, 3 * g - 2)]))

IsB64Char(c) == B64Index(c) >= 0

\* the 6-bit values read by the decoder: the first = ends the input and
\* characters outside the alphabet are skipped
B64Sextets(str) ==
  LET stop == {i \in 1..Len(str) : str[i] = 61}
      end == IF stop = {} THEN Len(str)
             ELSE (CHOOSE i \in stop : \A j \in stop : i <= j) - 1
      kept == SelectSeq(SubSeq(str, 1, end), IsB64Char)
  IN Array([i \in 1..Len(kept) |-> B64Index(kept[i])])

\* byte k of the bytes that the 6-bit values sx stand for
B64Byte(sx, k) ==
  LET g == 4 * ((k - 1) \div 3)
      r == (k - 1) % 3
  IN IF r = 0 THEN sx[g + 1] * 4 + (sx[g + 2] \div 16)
     ELSE IF r = 1 THEN (sx[g + 2] % 16) * 16 + (sx[g + 3] \div 4)
     ELSE (sx[g + 3] % 4) * 64 + sx[g + 4]

\* Buffer.from(str, 'base64') of a string: never throws
base64Decode(str) ==
  LET sx == B64Sextets(str)
  IN Array([k \in 1..((Len(sx) * 6) \div 8) |-> B64Byte(sx, k)])

\* ----------------------------------------------------------------- hex
HexChar(v) == IF v < 10 THEN 48 + v ELSE 97 + (v - 10)

HexIndex(c) ==
  IF c >= 48 /\ c <= 57 THEN c - 48
  ELSE IF c >= 97 /\ c <= 102 THEN c - 97 + 10
  ELSE IF c >= 65 /\ c <= 70 THEN c - 65 + 10
  ELSE -1

\* buf.toString('hex')
HexEncode(buf) ==
  Array([k \in 1..(2 * Len(buf)) |->
     IF k % 2 = 1 THEN HexChar(buf[(k + 1) \div 2] \div 16)
     ELSE HexChar(buf[k \div 2] % 16)])

\* Buffer.from(str, 'hex'): stops at the first pair that is not two hex digits
HexDecode(str) ==
  LET bad == {k \in 1..(Len(str) \div 2) :
                HexIndex(str[2 * k - 1]) < 0 \/ HexIndex(str[2 * k]) < 0}
      n == IF bad = {} THEN Len(str) \div 2
           ELSE (CHOOSE k \in bad : \A j \in bad : k <= j) - 1
  IN Array([k \in 1..n |-> HexIndex(str[2 * k - 1]) * 16 + HexIndex(str[2 * k])])

\* ------------------------------------------------ library primitives
\* crypto.randomBytes(n), one outcome per seed
randomBytes(n, seed) == Array([i \in 1..n |-> (seed * 17 + i * 5) % 256])

\* x25519.utils.randomPrivateKey(), one outcome per seed
x25519_randomPrivateKey(seed) == randomBytes(KeyLen, seed * 3)

\* the 32-byte little-endian encoding of a group element
EncodeU(v) == Array([i \in 1..KeyLen |-> IF i = 1 THEN v ELSE 0])

\* the scalar a private key stands for (never zero)
DecodeScalar(priv) == 1 + LEmod(priv, 21)

\* the group element a public key stands for: the top bit of the last byte
\* is masked, as x25519 does
DecodeU(pub) == LEmod([pub EXCEPT ![KeyLen] = @ % 128], 23)

\* x25519.getPublicKey(privateKey)
x25519_getPublicKey(priv) == EncodeU(PowMod(5, DecodeScalar(priv), 23))

\* x25519.getSharedSecret(privateKey, publicKey): throws for a key that is
\* not 32 bytes and for an all-zero shared secret
x25519_getSharedSecret(priv, pub) ==
  IF Len(priv) # KeyLen THEN Throw("InvalidKey")
  ELSE IF Len(pub) # KeyLen THEN Throw("InvalidKey")
  ELSE LET s == PowMod(DecodeU(pub), DecodeScalar(priv), 23)
       IN IF s = 0 THEN Throw("InvalidKey") ELSE Return(EncodeU(s))

\* byte i of the keystream of a cipher whose key and iv have the digest kiv
KeyStream(kiv, i) == (kiv + (i * 29) + 101) % 256

\* cipher.update(data) / decipher.update(data): the keystream XOR-ed on
CipherUpdate(key, iv, data) ==
  LET kiv == ((SumW(key) * 7) + (SumW(iv) * 13)) % 256
  IN Array([i \in 1..Len(data) |-> Xor8(data[i], KeyStream(kiv, i))])

\* the sum of the bytes of ct at positions j, j + 16, ... modulo 256
Fold(ct, j) ==
  SumMod(Array([k \in 1..((Len(ct) - j + TagLen) \div TagLen) |->
            ct[j + TagLen * (k - 1)]]), 256)

ByteAt(buf, i) == IF i <= Len(buf) THEN buf[i] ELSE 0

\* cipher.getAuthTag(): the 16-byte tag over key, iv and ciphertext
AuthTag(key, iv, ct) ==
  Array([j \in 1..TagLen |->
     (ByteAt(key, j) + 3 * ByteAt(key, j + TagLen) + 5 * ByteAt(iv, j)
        + 7 * Fold(ct, j)) % 256])

\* decipher.final(): the tag set by setAuthTag is compared with the tag of
\* what was deciphered, over the length of the tag that was set
DecipherFinal(key, iv, ct, tag) ==
  IF Slice(AuthTag(key, iv, ct), 0, Len(tag)) = tag THEN Return(<<>>)
  ELSE Throw("AuthenticationFailure")

\* ------------------------------------------------------------ envelope
\* plaintext instanceof Uint8Array ? plaintext : new TextEncoder().encode(..)
PlaintextBytes(plaintext) ==
  IF plaintext.t = "bytes" THEN plaintext.v ELSE TextEncoder_encode(plaintext.v)

\* encrypt with the recipient key cut or zero-padded to 32 bytes instead of
\* being rejected
encrypt_fitsKey(publicKeyBase64, plaintext, eph, n, now) ==
  LET given == base64Decode(publicKeyBase64)
      publicKey == Array([i \in 1..KeyLen |-> ByteAt(given, i)])
      ephemeralPrivateKey == x25519_randomPrivateKey(eph)
      ephemeralPublicKey == x25519_getPublicKey(ephemeralPrivateKey)
      sharedKey == x25519_getSharedSecret(ephemeralPrivateKey, publicKey)
      plaintextBytes == PlaintextBytes(plaintext)
      nonce == randomBytes(NonceLen, n)
      body == CipherUpdate(sharedKey.value, nonce, plaintextBytes)
      ciphertext == body \o AuthTag(sharedKey.value, nonce, body)
  IN IF ~sharedKey.ok THEN Throw(sharedKey.error)
     ELSE Return([keyId |-> base64Encode(Slice(publicKey, 0, KeyIdLen)),
                  ephemeralPublicKey |-> base64Encode(ephemeralPublicKey),
                  nonce |-> base64Encode(nonce),
                  ciphertext |-> base64Encode(ciphertext),
                  timestamp |-> now])

\* encrypt without cipher.getAuthTag() in the concatenation, and with the key
\* id taken from the encoded key
encrypt_noTag(publicKeyBase64, plaintext, eph, n, now) ==
  LET publicKey == base64Decode(publicKeyBase64)
      ephemeralPrivateKey == x25519_randomPrivateKey(eph)
      ephemeralPublicKey == x25519_getPublicKey(ephemeralPrivateKey)
      sharedKey == x25519_getSharedSecret(ephemeralPrivateKey, publicKey)
      plaintextBytes == PlaintextBytes(plaintext)
      nonce == randomBytes(NonceLen, n)
      body == CipherUpdate(sharedKey.value, nonce, plaintextBytes)
  IN IF ~sharedKey.ok THEN Throw(sharedKey.error)
     ELSE Return([keyId |-> Slice(publicKeyBase64, 0, KeyIdLen),
                  ephemeralPublicKey |-> base64Encode(ephemeralPublicKey),
                  nonce |-> base64Encode(nonce),
                  ciphertext |-> base64Encode(body),
                  timestamp |-> now])

\* encrypt that makes its ephemeral key once and uses it for every call
encrypt_sameEphemeral(publicKeyBase64, plaintext, eph, n, now) ==
  LET publicKey == base64Decode(publicKeyBase64)
      ephemeralPrivateKey == x25519_randomPrivateKey(11)
      nonce == randomBytes(NonceLen, n)
      Sealed(sharedKey, body) ==
        IF ~sharedKey.ok THEN Throw(sharedKey.error)
        ELSE Return([keyId |-> base64Encode(Slice(publicKey, 0, KeyIdLen)),
                     ephemeralPublicKey |->
                       base64Encode(x25519_getPublicKey(ephemeralPrivateKey)),
                     nonce |-> base64Encode(nonce),
                     ciphertext |->
                       base64Encode(body \o AuthTag(sharedKey.value, nonce, body)),
                     timestamp |-> now])
      Shared(sharedKey) ==
        Sealed(sharedKey,
               CipherUpdate(sharedKey.value, nonce, PlaintextBytes(plaintext)))
  IN Shared(x25519_getSharedSecret(ephemeralPrivateKey, publicKey))

\* encrypt(publicKeyBase64, plaintext); eph and n are the outcomes of the two
\* random draws, now is Date.now()
encrypt(publicKeyBase64, plaintext, eph, n, now) ==
  LET publicKey == base64Decode(publicKeyBase64)
      ephemeralPrivateKey == x25519_randomPrivateKey(eph)
      ephemeralPublicKey == x25519_getPublicKey(ephemeralPrivateKey)
      plaintextBytes == PlaintextBytes(plaintext)
      nonce == randomBytes(NonceLen, n)
      \* Buffer.concat([cipher.update(..), cipher.final(), cipher.getAuthTag()])
      Ciphertext(key, body) == body \o AuthTag(key, nonce, body)
      Sealed(sharedKey) ==
        IF ~sharedKey.ok THEN Throw(sharedKey.error)
        ELSE Return([keyId |-> base64Encode(Slice(publicKey, 0, KeyIdLen)),
                     ephemeralPublicKey |-> base64Encode(ephemeralPublicKey),
                     nonce |-> base64Encode(nonce),
                     ciphertext |->
                       base64Encode(
                         Ciphertext(sharedKey.value,
                                    CipherUpdate(sharedKey.value, nonce,
                                                 plaintextBytes))),
                     timestamp |-> now])
  IN Sealed(x25519_getSharedSecret(ephemeralPrivateKey, publicKey))

\* decrypt that cuts the tag off one byte short: slice(0, -15)
decrypt_shortCut(privateKeyBase64, encryptedData) ==
  LET privateKey == base64Decode(privateKeyBase64)
      ephemeralPublicKey == base64Decode(encryptedData.ephemeralPublicKey)
      sharedKey == x25519_getSharedSecret(privateKey, ephemeralPublicKey)
      nonce == base64Decode(encryptedData.nonce)
      ciphertext == base64Decode(encryptedData.ciphertext)
      plaintextBytes ==
        CipherUpdate(sharedKey.value, nonce,
                     SliceButLast(ciphertext, TagLen - 1))
  IN IF ~sharedKey.ok THEN Throw(sharedKey.error)
     ELSE Return([t |-> "string", v |-> TextDecoder_decode(plaintextBytes)])

\* decrypt(privateKeyBase64, encryptedData): the decipher is given the tag
\* and updated, and final() is never called on it
decrypt(privateKeyBase64, encryptedData) ==
  LET privateKey == base64Decode(privateKeyBase64)
      ephemeralPublicKey == base64Decode(encryptedData.ephemeralPublicKey)
      Opened(sharedKey, nonce, ciphertext) ==
        IF ~sharedKey.ok THEN Throw(sharedKey.error)
        ELSE IF Len(nonce) = 0 \/ Len(nonce) > NonceLen
          THEN Throw("InvalidIV")
        ELSE IF Len(SliceLast(ciphertext, TagLen)) # TagLen
          THEN Throw("InvalidTagLength")
        ELSE Return([t |-> "string",
                     v |-> TextDecoder_decode(
                             CipherUpdate(sharedKey.value, nonce,
                                          SliceButLast(ciphertext, TagLen)))])
  IN Opened(x25519_getSharedSecret(privateKey, ephemeralPublicKey),
            base64Decode(encryptedData.nonce),
            base64Decode(encryptedData.ciphertext))

\* generateKeyPair(), one outcome per seed
generateKeyPair(seed) ==
  LET privateKeyBytes == x25519_randomPrivateKey(seed)
      publicKeyBytes == x25519_getPublicKey(privateKeyBytes)
  IN [publicKey |-> base64Encode(publicKeyBytes),
      privateKey |-> base64Encode(privateKeyBytes)]

\* ---------------------------------------------------------------- JSON
\* JavaScript values: t is the type and v the code units of a string, the
\* one number of a number, and empty otherwise
Undefined == [t |-> "undefined", v |-> <<>>]

Null == [t |-> "null", v |-> <<>>]

Number(n) == [t |-> "number", v |-> <<n>>]

String(units) == [t |-> "string", v |-> units]

\* objects are sequences of <<key, value>> pairs in insertion order, the
\* keys being strings and the values strings or integers
IsSpace(c) == c \in {9, 10, 13, 32}

Hex4(u) ==
  <<HexChar(u \div 4096), HexChar((u \div 256) % 16), HexChar((u \div 16) % 16),
    HexChar(u % 16)>>

\* the text of one code unit inside a JSON string
QuoteUnit(u, lone) ==
  IF u = 34 THEN <<92, 34>>
  ELSE IF u = 92 THEN <<92, 92>>
  ELSE IF u = 8 THEN <<92, 98>>
  ELSE IF u = 9 THEN <<92, 116>>
  ELSE IF u = 10 THEN <<92, 110>>
  ELSE IF u = 12 THEN <<92, 102>>
  ELSE IF u = 13 THEN <<92, 114>>
  ELSE IF u < 32 \/ lone THEN <<92, 117>> \o Hex4(u)
  ELSE <<u>>

QuoteUnits(units) ==
  Flatten(Array([i \in 1..Len(units) |-> QuoteUnit(units[i], LoneAt(units, i))]))

\* JSON.stringify of a string
JSON_quote(units) == <<34>> \o QuoteUnits(units) \o <<34>>

RECURSIVE Digits(_)
\* the decimal digits of a natural number
Digits(n) ==
  IF n < 10 THEN <<48 + n>> ELSE Digits(n \div 10) \o <<48 + (n % 10)>>

\* JSON.stringify of a string or an integer
JSON_value(value) ==
  IF value.t = "string" THEN JSON_quote(value.v)
  ELSE IF value.v[1] < 0 THEN <<45>> \o Digits(0 - value.v[1])
  ELSE Digits(value.v[1])

RECURSIVE JSON_members(_, _, _)
JSON_members(obj, i, indent) ==
  IF i > Len(obj) THEN <<>>
  ELSE (IF indent THEN <<32, 32>> ELSE <<>>)
         \o JSON_quote(obj[i][1]) \o <<58>>
         \o (IF indent THEN <<32>> ELSE <<>>)
         \o JSON_value(obj[i][2])
         \o (IF i < Len(obj)
               THEN <<44>> \o (IF indent THEN <<10>> ELSE <<>>)
             ELSE <<>>)
         \o JSON_members(obj, i + 1, indent)

\* JSON.stringify(obj) and, with indent, JSON.stringify(obj, null, 2)
JSON_stringify(obj, indent) ==
  IF obj = <<>> THEN <<123, 125>>
  ELSE <<123>> \o (IF indent THEN <<10>> ELSE <<>>)
         \o JSON_members(obj, 1, indent)
         \o (IF indent THEN <<10>> ELSE <<>>) \o <<125>>

RECURSIVE SkipSpace(_, _)
SkipSpace(text, i) ==
  IF i <= Len(text) /\ IsSpace(text[i]) THEN SkipSpace(text, i + 1) ELSE i

Unescape(c) ==
  IF c = 98 THEN 8 ELSE IF c = 116 THEN 9 ELSE IF c = 110 THEN 10
  ELSE IF c = 102 THEN 12 ELSE IF c = 114 THEN 13 ELSE c

IsHexAt(text, i) == i <= Len(text) /\ HexIndex(text[i]) >= 0

\* the number of backslashes right before position i, from position s on
SlashesBefore(text, s, i) ==
  Cardinality({k \in 1..(i - s) : \A m \in 1..k : text[i - m] = 92})

\* inside the string that starts at s, position i begins an escape
EscapeAt(text, s, i) ==
  text[i] = 92 /\ SlashesBefore(text, s, i) % 2 = 0

\* position i is one of the four digits of a \u escape
DigitOfEscape(text, s, i) ==
  \E d \in 2..5 :
    i - d >= s /\ text[i - d + 1] = 117 /\ EscapeAt(text, s, i - d)

\* the escape that begins at i is one JSON knows
GoodEscape(text, i) ==
  /\ i + 1 <= Len(text)
  /\ \/ text[i + 1] \in {34, 92, 47, 98, 102, 110, 114, 116}
     \/ text[i + 1] = 117 /\ \A d \in 2..5 : IsHexAt(text, i + d)

\* the code units that position i adds to the string that starts at s
StringUnitAt(text, s, i) ==
  IF EscapeAt(text, s, i) \/ DigitOfEscape(text, s, i) THEN <<>>
  ELSE IF i > s /\ EscapeAt(text, s, i - 1)
    THEN IF text[i] = 117
           THEN <<HexIndex(text[i + 1]) * 4096 + HexIndex(text[i + 2]) * 256
                    + HexIndex(text[i + 3]) * 16 + HexIndex(text[i + 4])>>
         ELSE <<Unescape(text[i])>>
  ELSE <<text[i]>>

\* a JSON string starting at i: [ok, value, next], next being the position
\* after the closing quote
ParseString(text, i) ==
  LET Closed(s, e) ==
        IF \E k \in s..(e - 1) :
             \/ text[k] < 32
             \/ EscapeAt(text, s, k) /\ ~GoodEscape(text, k)
          THEN [ok |-> FALSE, value |-> <<>>, next |-> i]
        ELSE [ok |-> TRUE,
              value |-> Flatten(Array([k \in 1..(e - s) |->
                                   StringUnitAt(text, s, s + k - 1)])),
              next |-> e + 1]
      Opened(s, ends) ==
        IF ends = {} THEN [ok |-> FALSE, value |-> <<>>, next |-> i]
        ELSE Closed(s, CHOOSE x \in ends : \A y \in ends : x <= y)
  IN IF i > Len(text) \/ text[i] # 34
       THEN [ok |-> FALSE, value |-> <<>>, next |-> i]
     ELSE Opened(i + 1,
                 {e \in (i + 1)..Len(text) :
                    text[e] = 34 /\ SlashesBefore(text, i + 1, e) % 2 = 0})

IsDigitAt(text, i) == i <= Len(text) /\ text[i] >= 48 /\ text[i] <= 57

RECURSIVE DigitsValue(_, _, _)
\* the number written by the digits of text at positions from..to
DigitsValue(text, from, to) ==
  IF to < from THEN 0
  ELSE DigitsValue(text, from, to - 1) * 10 + (text[to] - 48)

\* a JSON integer starting at i: [ok, value, next]; a leading zero, a
\* fraction and an exponent are taken for errors
ParseNumber(text, i) ==
  LET Signed(s, n) == IF s > i THEN 0 - n ELSE n
      Read(s, e) ==
        IF e = s \/ (text[s] = 48 /\ e > s + 1)
             \/ (e <= Len(text) /\ text[e] \in {46, 69, 101})
          THEN [ok |-> FALSE, value |-> Undefined, next |-> i]
        ELSE [ok |-> TRUE,
              value |-> Number(Signed(s, DigitsValue(text, s, e - 1))),
              next |-> e]
      Stop(s, stops) == Read(s, CHOOSE x \in stops : \A y \in stops : x <= y)
      From(s) == Stop(s, {e \in s..(Len(text) + 1) : ~IsDigitAt(text, e)})
  IN From(IF i <= Len(text) /\ text[i] = 45 THEN i + 1 ELSE i)

\* a JSON string or integer starting at i: [ok, value, next]
ParseValue(text, i) ==
  LET AsValue(str) ==
        [ok |-> str.ok, value |-> String(str.value), next |-> str.next]
  IN IF i <= Len(text) /\ text[i] = 34 THEN AsValue(ParseString(text, i))
     ELSE ParseNumber(text, i)

\* obj with key set to value: an existing key keeps its place
SetKey(obj, key, value) ==
  IF \E j \in 1..Len(obj) : obj[j][1] = key
    THEN Array([j \in 1..Len(obj) |->
            IF obj[j][1] = key THEN <<key, value>> ELSE obj[j]])
  ELSE Append(obj, <<key, value>>)

RECURSIVE ParseMembers(_, _, _)
\* the members of an object from i on, the opening brace and any earlier
\* members being read: ok when the text ends right after the closing brace
ParseMembers(text, i, acc) ==
  LET Member(obj, after) ==
        IF after > Len(text) THEN Throw("SyntaxError")
        ELSE IF text[after] = 44 THEN ParseMembers(text, after + 1, obj)
        ELSE IF text[after] = 125 /\ SkipSpace(text, after + 1) > Len(text)
          THEN Return(obj)
        ELSE Throw("SyntaxError")
      Value(k, v) ==
        IF ~v.ok THEN Throw("SyntaxError")
        ELSE Member(SetKey(acc, k.value, v.value), SkipSpace(text, v.next))
      Colon(k, colon) ==
        IF colon > Len(text) \/ text[colon] # 58 THEN Throw("SyntaxError")
        ELSE Value(k, ParseValue(text, SkipSpace(text, colon + 1)))
      Key(k) ==
        IF ~k.ok THEN Throw("SyntaxError")
        ELSE Colon(k, SkipSpace(text, k.next))
  IN Key(ParseString(text, SkipSpace(text, i)))

\* JSON.parse(text) for the texts of objects whose members are strings and
\* integers; any other text is a SyntaxError
JSON_parse(text) ==
  LET Members(first) ==
        IF first <= Len(text) /\ text[first] = 125
             /\ SkipSpace(text, first + 1) > Len(text)
          THEN Return(<<>>)
        ELSE ParseMembers(text, first, <<>>)
      Object(open) ==
        IF open > Len(text) \/ text[open] # 123 THEN Throw("SyntaxError")
        ELSE Members(SkipSpace(text, open + 1))
  IN Object(SkipSpace(text, 1))

\* obj[key]
GetKey(obj, key) ==
  IF \E j \in 1..Len(obj) : obj[j][1] = key
    THEN obj[CHOOSE j \in 1..Len(obj) : obj[j][1] = key][2]
  ELSE Undefined


\* --------------------------------------------------------------- batch
\* A mail or a stored element is an object: fields holds its string members
\* in order, and the members the module adds are held apart, each absent
\* (the empty sequence) or present (a sequence of one value).
Absent == <<>>

Present(v) == <<v>>

\* the names of the members of a mail that the model keeps
K_id == <<105, 100>>

K_messageId == <<109, 101, 115, 115, 97, 103, 101, 73, 100>>

K_subject == <<115, 117, 98, 106, 101, 99, 116>>

\* a mail as a client hands it over: an object of strings and integers
PlainEmail(fields) ==
  [fields |-> fields, encrypted |-> Absent, encryption |-> Absent,
   receivedAt |-> Absent, decryptedAt |-> Absent, error |-> Absent,
   errorMessage |-> Absent]

RECURSIVE Spread(_, _)
\* { ...a, ...b } on string members: the members of b are set on a in order
Spread(a, b) ==
  IF b = <<>> THEN a
  ELSE Spread(SetKey(a, Head(b)[1], Head(b)[2]), Tail(b))

\* encryptBatch(publicKeyBase64, emails): element i is sealed with the random
\* draws of seed r + i; the exception of an encrypt call leaves the map
encryptBatch(publicKeyBase64, emails, r, now) ==
  LET encryption(i) ==
        encrypt(publicKeyBase64,
                [t |-> "string", v |-> JSON_stringify(emails[i].fields, FALSE)],
                10 + r + i, r + i, now)
  IN IF \E i \in 1..Len(emails) : ~encryption(i).ok
       THEN Throw(encryption(CHOOSE i \in 1..Len(emails) :
                               /\ ~encryption(i).ok
                               /\ \A j \in 1..(i - 1) : encryption(j).ok).error)
     ELSE Return(Array([i \in 1..Len(emails) |->
                    [emails[i] EXCEPT
                       !.encrypted = Present(TRUE),
                       !.encryption = Present(encryption(i).value)]]))

\* the element decryptBatch returns when decrypt or JSON.parse throws
FailureMarker(email, message) ==
  [email EXCEPT !.error = Present("decrypt failed"),
                !.errorMessage = Present(message)]

\* decryptBatch that stamps decryptedAt on the elements it passes through
decryptBatch_stampsAll(privateKeyBase64, encryptedEmails, now) ==
  LET Parsed(email, parsed) ==
        IF ~parsed.ok THEN FailureMarker(email, parsed.error)
        ELSE [email EXCEPT !.fields = Spread(@, parsed.value),
                           !.encrypted = Present(FALSE),
                           !.decryptedAt = Present(now)]
      Decrypted(email, decryptedContent) ==
        IF ~decryptedContent.ok
          THEN FailureMarker(email, decryptedContent.error)
        ELSE Parsed(email, JSON_parse(decryptedContent.value.v))
      Element(email) ==
        IF email.encrypted \in {Absent, Present(FALSE)}
             \/ email.encryption = Absent
          THEN [email EXCEPT !.decryptedAt = Present(now)]
        ELSE Decrypted(email, decrypt(privateKeyBase64, email.encryption[1]))
  IN Array([i \in 1..Len(encryptedEmails) |-> Element(encryptedEmails[i])])

\* decryptBatch(privateKeyBase64, encryptedEmails); now is Date.now()
decryptBatch(privateKeyBase64, encryptedEmails, now) ==
  LET Parsed(email, parsed) ==
        IF ~parsed.ok THEN FailureMarker(email, parsed.error)
        ELSE [email EXCEPT !.fields = Spread(@, parsed.value),
                           !.encrypted = Present(FALSE),
                           !.decryptedAt = Present(now)]
      Decrypted(email, decryptedContent) ==
        IF ~decryptedContent.ok
          THEN FailureMarker(email, decryptedContent.error)
        ELSE Parsed(email, JSON_parse(decryptedContent.value.v))
      Element(email) ==
        IF email.encrypted \in {Absent, Present(FALSE)}
             \/ email.encryption = Absent
          THEN email
        ELSE Decrypted(email, decrypt(privateKeyBase64, email.encryption[1]))
  IN Array([i \in 1..Len(encryptedEmails) |-> Element(encryptedEmails[i])])

\* ---------------------------------------------------------- validation
\* an argument of validateEncryptedData: a value of type t whose three
\* properties read as given (undefined when the value has no such property)
Argument(t, ephemeralPublicKey, nonce, ciphertext) ==
  [t |-> t, ephemeralPublicKey |-> ephemeralPublicKey, nonce |-> nonce,
   ciphertext |-> ciphertext]

\* !value is false
Truthy(value) ==
  \/ value.t = "string" /\ value.v # <<>>
  \/ value.t = "number" /\ value.v # <<0>>

\* the try block of validateEncryptedData lets the field pass: Buffer.from
\* throws for a number, and a result of no bytes is refused
DecodesNonEmpty(value) ==
  value.t = "string" /\ Len(base64Decode(value.v)) # 0

\* validateEncryptedData(encryptedData): reading a property of null or
\* undefined throws outside the try block; each of the three fields must be
\* truthy and decode to at least one byte
validateEncryptedData(encryptedData) ==
  IF encryptedData.t \in {"null", "undefined"} THEN Throw("TypeError")
  ELSE Return(/\ Truthy(encryptedData.ephemeralPublicKey)
              /\ DecodesNonEmpty(encryptedData.ephemeralPublicKey)
              /\ Truthy(encryptedData.nonce)
              /\ DecodesNonEmpty(encryptedData.nonce)
              /\ Truthy(encryptedData.ciphertext)
              /\ DecodesNonEmpty(encryptedData.ciphertext))

\* --------------------------------------------------------------- vault
\* crypto.pbkdf2Sync(password, salt, 100000, keylen, 'sha512')
pbkdf2Sync(password, salt, keylen) ==
  LET digest == SumW(TextEncoder_encode(password))
  IN Array([i \in 1..keylen |-> (ByteAt(salt, i) + digest) % 256])

\* generateSalt(), one outcome per seed
generateSalt(seed) == randomBytes(SaltLen, seed * 5)

\* the names of the fields of the private-key file
K_salt == <<115, 97, 108, 116>>

K_iv == <<105, 118>>

K_authTag == <<97, 117, 116, 104, 84, 97, 103>>

K_encrypted == <<101, 110, 99, 114, 121, 112, 116, 101, 100>>

\* encryptPrivateKey(privateKey, password); s and v are the outcomes of the
\* two random draws
encryptPrivateKey(privateKey, password, s, v) ==
  LET salt == generateSalt(s)
      iv == randomBytes(IvLen, v * 7)
      key == pbkdf2Sync(password, salt, 32)
      body == CipherUpdate(key, iv, TextEncoder_encode(privateKey))
      authTag == AuthTag(key, iv, body)
  IN [salt |-> HexEncode(salt),
      iv |-> HexEncode(iv),
      authTag |-> HexEncode(authTag),
      encrypted |-> HexEncode(body)]

\* decryptPrivateKey that derives the key without the stored salt
decryptPrivateKey_noSalt(encryptedData, password) ==
  LET key == pbkdf2Sync(password, <<>>, 32)
      iv == HexDecode(encryptedData.iv)
      authTag == HexDecode(encryptedData.authTag)
      body == HexDecode(encryptedData.encrypted)
      final == DecipherFinal(key, iv, body, authTag)
  IN IF ~final.ok THEN Throw(final.error)
     ELSE Return(Utf8ToString(CipherUpdate(key, iv, body)))

\* decryptPrivateKey(encryptedData, password): final() checks the tag
decryptPrivateKey(encryptedData, password) ==
  LET Final(final, decrypted) ==
        IF ~final.ok THEN Throw(final.error) ELSE Return(decrypted)
      Opened(key, iv, authTag, body) ==
        IF Len(iv) = 0 THEN Throw("InvalidIV")
        ELSE IF Len(authTag) \notin {4, 8, 12, 13, 14, 15, 16}
          THEN Throw("InvalidTagLength")
        ELSE Final(DecipherFinal(key, iv, body, authTag),
                   Utf8ToString(CipherUpdate(key, iv, body)))
  IN Opened(pbkdf2Sync(password, HexDecode(encryptedData.salt), 32),
            HexDecode(encryptedData.iv),
            HexDecode(encryptedData.authTag),
            HexDecode(encryptedData.encrypted))

NoFile == [exists |-> FALSE, data |-> <<>>]

\* fs.writeFileSync(path, str): the file holds the UTF-8 bytes of str
writeFileSync(str) == [exists |-> TRUE, data |-> TextEncoder_encode(str)]

\* fs.readFileSync(path, 'utf8') of a file that exists
readFileSync(file) == Utf8ToString(file.data)

NoFiles == [publicKey |-> NoFile, privateKey |-> NoFile]

\* saveKeys(keyPair, password): the two files of ./keys after the writes
saveKeys(keyPair, password, s, v) ==
  LET encryptedPrivateKey == encryptPrivateKey(keyPair.privateKey, password, s, v)
  IN [publicKey |-> writeFileSync(keyPair.publicKey),
      privateKey |->
        writeFileSync(
          JSON_stringify(
            <<<<K_salt, String(encryptedPrivateKey.salt)>>,
              <<K_iv, String(encryptedPrivateKey.iv)>>,
              <<K_authTag, String(encryptedPrivateKey.authTag)>>,
              <<K_encrypted, String(encryptedPrivateKey.encrypted)>>>>,
            TRUE))]

RECURSIVE TrimLeft(_)
TrimLeft(str) ==
  IF str # <<>> /\ IsSpace(Head(str)) THEN TrimLeft(Tail(str)) ELSE str

RECURSIVE TrimRight(_)
TrimRight(str) ==
  IF str # <<>> /\ IsSpace(str[Len(str)])
    THEN TrimRight(SubSeq(str, 1, Len(str) - 1))
  ELSE str

\* str.trim()
Trim(str) == TrimRight(TrimLeft(str))

\* loadKeys(password): reads the two files of ./keys
loadKeys(password, files) ==
  LET Loaded(privateKey) ==
        IF ~privateKey.ok THEN Throw(privateKey.error)
        ELSE Return([publicKey |-> Trim(readFileSync(files.publicKey)),
                     privateKey |-> privateKey.value])
      Parsed(parsed) ==
        IF ~parsed.ok THEN Throw(parsed.error)
        ELSE IF \E key \in {K_salt, K_iv, K_authTag, K_encrypted} :
                  GetKey(parsed.value, key).t # "string"
          THEN Throw("TypeError")
        ELSE Loaded(decryptPrivateKey(
                      [salt |-> GetKey(parsed.value, K_salt).v,
                       iv |-> GetKey(parsed.value, K_iv).v,
                       authTag |-> GetKey(parsed.value, K_authTag).v,
                       encrypted |-> GetKey(parsed.value, K_encrypted).v],
                      password))
  IN IF ~files.publicKey.exists \/ ~files.privateKey.exists
       THEN Throw("ENOENT")
     ELSE Parsed(JSON_parse(readFileSync(files.privateKey)))

\* verifyKeyPair(publicKey, privateKey): Buffer.from throws for a private
\* key that is no string and x25519.getPublicKey for one that is not 32
\* bytes; the catch block makes false of both
verifyKeyPair(publicKey, privateKey) ==
  IF privateKey.t # "string" THEN FALSE
  ELSE IF Len(base64Decode(privateKey.v)) # KeyLen THEN FALSE
  ELSE String(base64Encode(x25519_getPublicKey(base64Decode(privateKey.v))))
         = publicKey

\* -------------------------------------------------------------- server
\* the mail that getUnreadEmails makes of the message with this uid: id and
\* messageId are the uid, a number; of the other members the model keeps
\* the subject
MailboxEmail(uid, subject) ==
  PlainEmail(<<<<K_id, Number(uid)>>, <<K_messageId, Number(uid)>>,
               <<K_subject, String(subject)>>>>)

\* getUnreadEmails(connection): the last 10 unseen messages; markSeen is
\* false, so the mailbox stays as it is
getUnreadEmails(unseen) == SliceLast(unseen, 10)

\* a call of a function of the crypto or key module made by a handler
Call(fn, arg) == [fn |-> fn, arg |-> arg]

\* a request to the HTTP server: its route, and of the password of the
\* body, the limit, offset and decrypted of the query and the id of the
\* path those the route reads; the firing of the polling timer is written
\* as a request of the route "timer"
Request(route, password, limit, offset, decrypted, id) ==
  [route |-> route, password |-> password, limit |-> limit,
   offset |-> offset, decrypted |-> decrypted, id |-> id]

NoRequest == Request("none", Undefined, Absent, Absent, FALSE, <<>>)

\* an answer of the HTTP server
Response(status, error, list, total) ==
  [status |-> status, error |-> error, emails |-> list, total |-> total]

NoResponse == Response(0, "", <<>>, 0)

RECURSIVE StoreNew(_, _, _, _, _, _)
\* newEmails.forEach(email => emailStore.unshift({...email, encrypted: true,
\* encryption: encrypt(...), receivedAt})) from element i on: the store, and
\* the error of the encrypt call that threw, if one did
StoreNew(store, publicKey, newEmails, i, r, now) ==
  IF i > Len(newEmails) THEN [ok |-> TRUE, value |-> store, error |-> ""]
  ELSE LET Unshift(encrypted) ==
             IF ~encrypted.ok
               THEN [ok |-> FALSE, value |-> store, error |-> encrypted.error]
             ELSE StoreNew(<<[newEmails[i] EXCEPT
                                !.encrypted = Present(TRUE),
                                !.encryption = Present(encrypted.value),
                                !.receivedAt = Present(now)]>> \o store,
                           publicKey, newEmails, i + 1, r, now)
       IN Unshift(encrypt(publicKey,
                          String(JSON_stringify(newEmails[i].fields, FALSE)),
                          10 + r + i, r + i, now))

\* loadKeys(process.env.ENCRYPTION_PASSWORD): with the variable unset the
\* files are read and pbkdf2Sync then throws for the undefined password
loadKeysEnv(password, keyFiles) ==
  IF password # Absent THEN loadKeys(password[1], keyFiles)
  ELSE IF ~keyFiles.publicKey.exists \/ ~keyFiles.privateKey.exists
    THEN Throw("ENOENT")
  ELSE IF ~JSON_parse(readFileSync(keyFiles.privateKey)).ok
    THEN Throw("SyntaxError")
  ELSE Throw("TypeError")

\* the element GET /api/emails returns for a stored element when decrypted
\* is asked for
DecryptListed(privateKey, email) ==
  LET Parsed(parsed) ==
        IF ~parsed.ok THEN [email EXCEPT !.error = Present("decrypt failed")]
        ELSE [email EXCEPT !.fields = Spread(@, parsed.value),
                           !.encrypted = Present(FALSE)]
      Decrypted(decryptedContent) ==
        IF ~decryptedContent.ok
          THEN [email EXCEPT !.error = Present("decrypt failed")]
        ELSE Parsed(JSON_parse(decryptedContent.value.v))
  IN IF email.encrypted \in {Absent, Present(FALSE)}
          \/ email.encryption = Absent
       THEN email
     ELSE Decrypted(decrypt(privateKey, email.encryption[1]))

\* the calls GET /api/emails makes for the stored elements: one decrypt for
\* each element that is marked encrypted and has an envelope
DecryptCalls(store) ==
  LET sealedAt == {i \in 1..Len(store) :
                     /\ store[i].encrypted = Present(TRUE)
                     /\ store[i].encryption # Absent}
      Nth(k) == CHOOSE i \in sealedAt :
                  Cardinality({j \in sealedAt : j <= i}) = k
  IN Array([k \in 1..Cardinality(sealedAt) |->
              Call("decrypt", store[Nth(k)].encryption)])

\* parseInt(str) and Number(str) for a string of decimal digits
ParseInt(str) == DigitsValue(str, 1, Len(str))

\* emails.slice(offset, offset + parseInt(limit)): limit and offset are the
\* strings of the query, or absent and then the numbers 20 and 0; with a
\* string offset the + joins two strings
Page(list, limit, offset) ==
  LET count == IF limit = Absent THEN 20 ELSE ParseInt(limit[1])
      from == IF offset = Absent THEN 0 ELSE ParseInt(offset[1])
      to == IF offset = Absent THEN 0 + count
            ELSE ParseInt(offset[1] \o Digits(count))
  IN Slice(list, from, to)

\* ------------------------------------------------------- model inputs
SeqsUpTo(S, n) == UNION {[1..k -> S] : k \in 0..n}

\* code units of the strings tried: a, e-acute, U+FEFF, a lone high surrogate
StrUnits == {97, 233, 65279, 55296}

\* bytes of the byte arrays tried: h, a lead byte, a continuation byte
ByteSamples == {104, 195, 169}

Plaintexts ==
  {[t |-> "string", v |-> u] : u \in SeqsUpTo(StrUnits, MaxPlainLen)}
    \cup {[t |-> "bytes", v |-> b] : b \in SeqsUpTo(ByteSamples, MaxPlainLen)}

Seeds == 1..MaxSeed

\* the seeds of ephemeral keys are apart from those of long-term keys
EphSeeds == {10 + r : r \in Seeds}

Clock == 0..MaxClock

\* the recipient keys handed to encrypt: the public key itself, the key cut
\* to 31 bytes, extended to 33 bytes, empty, and the 32-byte zero point
PublicKeyArgs(pair) ==
  LET pk == base64Decode(pair.publicKey)
  IN {pair.publicKey,
      base64Encode(Slice(pk, 0, KeyLen - 1)),
      base64Encode(pk \o <<0>>),
      <<>>,
      base64Encode(EncodeU(0))}

\* the envelope with one bit of one binary field flipped
TamperEnvelope(e, field, i, bit) ==
  IF field = "ciphertext"
    THEN [e EXCEPT !.ciphertext = base64Encode(FlipBit(base64Decode(@), i, bit))]
  ELSE IF field = "nonce"
    THEN [e EXCEPT !.nonce = base64Encode(FlipBit(base64Decode(@), i, bit))]
  ELSE [e EXCEPT
          !.ephemeralPublicKey = base64Encode(FlipBit(base64Decode(@), i, bit))]

EnvelopeFields == {"ciphertext", "nonce", "ephemeralPublicKey"}

FieldBytes(e, field) ==
  IF field = "ciphertext" THEN base64Decode(e.ciphertext)
  ELSE IF field = "nonce" THEN base64Decode(e.nonce)
  ELSE base64Decode(e.ephemeralPublicKey)

\* --------------------------------------------------------------- state
VARIABLES
  phase,      \* envelope run: "start", "encrypted", "tampered", "decrypted"
  keys,       \* envelope run: the key pairs A and B
  pubArg,     \* envelope run: the recipient key given to encrypt
  plaintext,  \* envelope run: the plaintext given to encrypt
  sealed,     \* envelope run: what encrypt returned or threw
  tamper,     \* envelope run: the bit flipped in the envelope, if any
  opened,     \* envelope run: what decrypt returned or threw
  openedWith, \* envelope run: the key pair whose private key decrypt was given
  vphase,     \* vault run: "start", "sealed", "tampered", "opened", "saved",
              \*   "loaded"
  vpair,      \* vault run: the key pair whose private key is protected
  vpass,      \* vault run: the passphrase given to encryptPrivateKey/saveKeys
  blob,       \* vault run: what encryptPrivateKey returned, possibly altered
  vtamper,    \* vault run: the bit flipped in the blob, if any
  vtry,       \* vault run: the passphrase given to decryptPrivateKey/loadKeys
  vopened,    \* vault run: what decryptPrivateKey returned or threw
  files,      \* the files public-key.txt and private-key.json of ./keys
  loaded,     \* vault run: what loadKeys returned or threw
  bphase,     \* batch run: "start", "encrypted", "tampered", "mixed",
              \*   "decrypted"
  bkeys,      \* batch run: the key pair of the recipient
  emails,     \* batch run: the mails given to encryptBatch
  encryptedEmails,  \* batch run: what encryptBatch returned, possibly altered
  btamper,    \* batch run: the element and the bit flipped in it, if any
  decryptedEmails,  \* batch run: what decryptBatch returned
  vdphase,    \* validation run: "start", "validated"
  vdInput,    \* validation run: the argument of validateEncryptedData
  vdResult,   \* validation run: what validateEncryptedData returned or threw
  running,    \* server: start() has run
  emailStore, \* server: the stored elements, newest first
  keyPair,    \* server: null (Absent) or the key pair in memory
  envPassword,  \* server: process.env.ENCRYPTION_PASSWORD, if set
  envFile,    \* the password of the ENCRYPTION_PASSWORD line of the file .env
  mailbox,    \* server: the unseen messages of the IMAP account
  request,    \* server: the last request, or firing of the polling timer
  response,   \* server: the answer to the last request
  calls,      \* server: the crypto and key calls of the last handler run
  vkphase,    \* verification run: "start", "verified"
  vkPublic,   \* verification run: the publicKey given to verifyKeyPair
  vkPrivate,  \* verification run: the privateKey given to verifyKeyPair
  vkResult,   \* verification run: what verifyKeyPair returned
  recipient,  \* sequence run: the key pair of the recipient
  envelopes,  \* sequence run: the encrypt calls made, each with its plaintext,
              \*   its random draws and what it returned
  plaintexts  \* sequence run: what decrypt returned for each envelope

envVars ==
  <<phase, keys, pubArg, plaintext, sealed, tamper, opened, openedWith>>

vaultVars ==
  <<vphase, vpair, vpass, blob, vtamper, vtry, vopened, files, loaded>>

batchVars ==
  <<bphase, bkeys, emails, encryptedEmails, btamper, decryptedEmails>>

validationVars == <<vdphase, vdInput, vdResult>>

serverVars ==
  <<running, emailStore, keyPair, envPassword, envFile, mailbox, request,
    response, calls>>

verifyVars == <<vkphase, vkPublic, vkPrivate, vkResult>>

sequenceVars == <<recipient, envelopes, plaintexts>>

vars ==
  <<envVars, vaultVars, batchVars, validationVars, serverVars, verifyVars,
    sequenceVars>>

NoTamper == [field |-> "none", byte |-> 0, bit |-> 0]

Pending == [ok |-> FALSE, value |-> <<>>, error |-> "pending"]

NoBatchTamper == [at |-> 0, field |-> "none", byte |-> 0, bit |-> 0]

\* the variables of the envelope run while another run is made
EnvelopeIdle ==
  /\ phase = "idle"
  /\ keys = <<>>
  /\ pubArg = <<>>
  /\ plaintext = <<>>
  /\ sealed = Pending
  /\ tamper = NoTamper
  /\ opened = Pending
  /\ openedWith = "none"

\* the variables of the vault run while another run is made
VaultIdle ==
  /\ vphase = "idle"
  /\ vpair = <<>>
  /\ vpass = <<>>
  /\ blob = <<>>
  /\ vtamper = NoTamper
  /\ vtry = <<>>
  /\ vopened = Pending
  /\ files = NoFiles
  /\ loaded = Pending

\* the variables of the batch run while another run is made
BatchIdle ==
  /\ bphase = "idle"
  /\ bkeys = <<>>
  /\ emails = <<>>
  /\ encryptedEmails = Pending
  /\ btamper = NoBatchTamper
  /\ decryptedEmails = <<>>

\* the variables of the validation run while another run is made
ValidationIdle ==
  /\ vdphase = "idle"
  /\ vdInput = <<>>
  /\ vdResult = Pending

\* the variables of the server while a run of the modules is made
ServerIdle ==
  /\ running = FALSE
  /\ emailStore = <<>>
  /\ keyPair = Absent
  /\ envPassword = Absent
  /\ envFile = Absent
  /\ mailbox = <<>>
  /\ request = NoRequest
  /\ response = NoResponse
  /\ calls = <<>>

\* the variables of the verification run while another run is made
VerifyIdle ==
  /\ vkphase = "idle"
  /\ vkPublic = Undefined
  /\ vkPrivate = Undefined
  /\ vkResult = FALSE

\* the variables of the sequence run while another run is made
SequenceIdle ==
  /\ recipient = <<>>
  /\ envelopes = <<>>
  /\ plaintexts = <<>>

\* ------------------------------------------------ envelope: operations
KeyPairs ==
  {[A |-> generateKeyPair(a), B |-> generateKeyPair(a + 1)] : a \in Seeds}

InitEnvelope ==
  /\ phase = "start"
  /\ keys \in KeyPairs
  /\ pubArg \in PublicKeyArgs(keys.A)
  /\ plaintext \in Plaintexts
  /\ sealed = Pending
  /\ tamper = NoTamper
  /\ opened = Pending
  /\ openedWith = "none"
  /\ VaultIdle
  /\ BatchIdle
  /\ ValidationIdle
  /\ ServerIdle
  /\ VerifyIdle
  /\ SequenceIdle

\* a sender calls encrypt(publicKey, plaintext)
Encrypt ==
  /\ phase = "start"
  /\ \E eph \in EphSeeds, n \in Seeds, now \in Clock :
       sealed' = encrypt(pubArg, plaintext, eph, n, now)
  /\ phase' = "encrypted"
  /\ UNCHANGED <<keys, pubArg, plaintext, tamper, opened, openedWith>>
  /\ UNCHANGED <<vaultVars, batchVars, validationVars, serverVars,
                 verifyVars, sequenceVars>>

\* one bit of the stored or transmitted envelope is flipped
Tamper ==
  /\ phase = "encrypted"
  /\ sealed.ok
  /\ \E field \in EnvelopeFields :
       \E i \in 1..Len(FieldBytes(sealed.value, field)), bit \in 0..7 :
         /\ sealed' = Return(TamperEnvelope(sealed.value, field, i, bit))
         /\ tamper' = [field |-> field, byte |-> i, bit |-> bit]
  /\ phase' = "tampered"
  /\ UNCHANGED <<keys, pubArg, plaintext, opened, openedWith>>
  /\ UNCHANGED <<vaultVars, batchVars, validationVars, serverVars,
                 verifyVars, sequenceVars>>

\* the holder of key pair A calls decrypt(privateKey, envelope)
DecryptOwn ==
  /\ phase \in {"encrypted", "tampered"}
  /\ sealed.ok
  /\ opened' = decrypt(keys.A.privateKey, sealed.value)
  /\ openedWith' = "A"
  /\ phase' = "decrypted"
  /\ UNCHANGED <<keys, pubArg, plaintext, sealed, tamper>>
  /\ UNCHANGED <<vaultVars, batchVars, validationVars, serverVars,
                 verifyVars, sequenceVars>>

\* the holder of another key pair, B, calls decrypt on the envelope made for A
DecryptOther ==
  /\ phase = "encrypted"
  /\ sealed.ok
  /\ opened' = decrypt(keys.B.privateKey, sealed.value)
  /\ openedWith' = "B"
  /\ phase' = "decrypted"
  /\ UNCHANGED <<keys, pubArg, plaintext, sealed, tamper>>
  /\ UNCHANGED <<vaultVars, batchVars, validationVars, serverVars,
                 verifyVars, sequenceVars>>

NextEnvelope == Encrypt \/ DecryptOwn \/ DecryptOther

\* encrypt, then decrypt with the matching or with another private key
SpecEnvelope == InitEnvelope /\ [][NextEnvelope]_vars

InitTamper ==
  /\ InitEnvelope
  /\ pubArg = keys.A.publicKey
  /\ plaintext \in {[t |-> "string", v |-> <<97, 233>>],
                    [t |-> "bytes", v |-> <<104>>]}

NextTamper == Encrypt \/ Tamper \/ DecryptOwn

\* encrypt, flip one bit of the envelope, decrypt with the matching key
SpecTamper == InitTamper /\ [][NextTamper]_vars

\* ---------------------------------------------------- envelope: claims
\* a string without lone surrogates
WellFormed(units) == \A i \in 1..Len(units) : ~LoneAt(units, i)

\* decrypt was given the private key of the pair the envelope was made for,
\* and the envelope as encrypt returned it
RoundTripDone ==
  phase = "decrypted" /\ openedWith = "A" /\ tamper = NoTamper

C2_TamperRejected ==
  (phase = "decrypted" /\ openedWith = "A" /\ tamper # NoTamper) =>
    (~opened.ok /\ opened.error = "AuthenticationFailure")

\* C3: decrypt with the private key of another key pair B, of an envelope
\* made for A, fails with an authentication failure and returns no value.
C3_WrongKeyRejected ==
  (phase = "decrypted" /\ openedWith = "B") =>
    (~opened.ok /\ opened.error = "AuthenticationFailure")

\* C9: every envelope returned by encrypt for a 32-byte public key has keyId
\* = the encoding of the first 8 bytes of the key, an ephemeralPublicKey of
\* 32 bytes, a nonce of 12 bytes and a ciphertext of (byte length of P) + 16
\* bytes.
C9_EnvelopeShape ==
  (phase # "start" /\ sealed.ok /\ Len(base64Decode(pubArg)) = 32) =>
    /\ sealed.value.keyId = base64Encode(SubSeq(base64Decode(pubArg), 1, 8))
    /\ Len(base64Decode(sealed.value.ephemeralPublicKey)) = 32
    /\ Len(base64Decode(sealed.value.nonce)) = 12
    /\ Len(base64Decode(sealed.value.ciphertext))
         = Len(PlaintextBytes(plaintext)) + 16

C9_Witness ==
  /\ phase = "encrypted"
  /\ sealed.ok
  /\ plaintext = [t |-> "string", v |-> <<233, 97>>]
  /\ Len(base64Decode(sealed.value.ciphertext)) = 19

\* C10: encrypt with a recipient key that does not decode to exactly 32
\* bytes fails with an invalid-key error and returns no envelope.
C10_BadKeyRejected ==
  (phase # "start" /\ Len(base64Decode(pubArg)) # 32) =>
    (~sealed.ok /\ sealed.error = "InvalidKey")

C10_Witness ==
  /\ phase = "encrypted"
  /\ Len(base64Decode(pubArg)) = 31
  /\ ~sealed.ok

\* --------------------------------------------------- vault: operations
\* the passphrases tried: "pw", "p" e-acute, "Pw"
Passphrases == {<<112, 119>>, <<112, 233>>, <<80, 119>>}

BlobFields == {"salt", "iv", "authTag", "encrypted"}

BlobField(b, field) ==
  IF field = "salt" THEN b.salt
  ELSE IF field = "iv" THEN b.iv
  ELSE IF field = "authTag" THEN b.authTag
  ELSE b.encrypted

SetBlobField(b, field, str) ==
  IF field = "salt" THEN [b EXCEPT !.salt = str]
  ELSE IF field = "iv" THEN [b EXCEPT !.iv = str]
  ELSE IF field = "authTag" THEN [b EXCEPT !.authTag = str]
  ELSE [b EXCEPT !.encrypted = str]

InitVault ==
  /\ vphase = "start"
  /\ vpair \in {generateKeyPair(a) : a \in Seeds}
  /\ vpass \in Passphrases
  /\ blob = <<>>
  /\ vtamper = NoTamper
  /\ vtry = <<>>
  /\ vopened = Pending
  /\ files = NoFiles
  /\ loaded = Pending
  /\ EnvelopeIdle
  /\ BatchIdle
  /\ ValidationIdle
  /\ ServerIdle
  /\ VerifyIdle
  /\ SequenceIdle

\* encryptPrivateKey(privateKey, password) is called
Seal ==
  /\ vphase = "start"
  /\ \E s \in Seeds, v \in Seeds :
       blob' = encryptPrivateKey(vpair.privateKey, vpass, s, v)
  /\ vphase' = "sealed"
  /\ UNCHANGED <<vpair, vpass, vtamper, vtry, vopened, files, loaded>>
  /\ UNCHANGED <<envVars, batchVars, validationVars, serverVars,
                 verifyVars, sequenceVars>>

\* one bit of one byte that a field of the blob stands for is flipped
TamperBlobByte ==
  /\ vphase = "sealed"
  /\ \E field \in BlobFields :
       \E i \in 1..Len(HexDecode(BlobField(blob, field))), bit \in 0..7 :
         /\ blob' = SetBlobField(blob, field,
                      HexEncode(FlipBit(HexDecode(BlobField(blob, field)),
                                        i, bit)))
         /\ vtamper' = [field |-> field, byte |-> i, bit |-> bit]
  /\ vphase' = "tampered"
  /\ UNCHANGED <<vpair, vpass, vtry, vopened, files, loaded>>
  /\ UNCHANGED <<envVars, batchVars, validationVars, serverVars,
                 verifyVars, sequenceVars>>

\* one bit of one character of the text of a field of the blob is flipped
TamperBlobText ==
  /\ vphase = "sealed"
  /\ \E field \in BlobFields :
       \E i \in 1..Len(BlobField(blob, field)), bit \in 0..7 :
         /\ blob' = SetBlobField(blob, field,
                                 FlipBit(BlobField(blob, field), i, bit))
         /\ vtamper' = [field |-> field \o "Text", byte |-> i, bit |-> bit]
  /\ vphase' = "tampered"
  /\ UNCHANGED <<vpair, vpass, vtry, vopened, files, loaded>>
  /\ UNCHANGED <<envVars, batchVars, validationVars, serverVars,
                 verifyVars, sequenceVars>>

\* decryptPrivateKey(blob, password) is called with some passphrase
Open ==
  /\ vphase \in {"sealed", "tampered"}
  /\ \E w \in Passphrases :
       /\ vtry' = w
       /\ vopened' = decryptPrivateKey(blob, w)
  /\ vphase' = "opened"
  /\ UNCHANGED <<vpair, vpass, blob, vtamper, files, loaded>>
  /\ UNCHANGED <<envVars, batchVars, validationVars, serverVars,
                 verifyVars, sequenceVars>>

\* saveKeys(keyPair, password) is called
SaveKeys ==
  /\ vphase = "start"
  /\ \E s \in Seeds, v \in Seeds : files' = saveKeys(vpair, vpass, s, v)
  /\ vphase' = "saved"
  /\ UNCHANGED <<vpair, vpass, blob, vtamper, vtry, vopened, loaded>>
  /\ UNCHANGED <<envVars, batchVars, validationVars, serverVars,
                 verifyVars, sequenceVars>>

\* loadKeys(password) is called with some passphrase, before or after saveKeys
LoadKeys ==
  /\ vphase \in {"start", "saved"}
  /\ \E w \in Passphrases :
       /\ vtry' = w
       /\ loaded' = loadKeys(w, files)
  /\ vphase' = "loaded"
  /\ UNCHANGED <<vpair, vpass, blob, vtamper, vopened, files>>
  /\ UNCHANGED <<envVars, batchVars, validationVars, serverVars,
                 verifyVars, sequenceVars>>

NextVault == Seal \/ Open \/ SaveKeys \/ LoadKeys

\* protect a private key and recover it, in memory and through ./keys
SpecVault == InitVault /\ [][NextVault]_vars

InitVaultTamper ==
  /\ InitVault
  /\ vpair = generateKeyPair(1)
  /\ vpass = <<112, 233>>

NextVaultTamper == Seal \/ TamperBlobByte \/ TamperBlobText \/ Open

\* protect a private key, flip one bit of the blob, try to recover the key
SpecVaultTamper == InitVaultTamper /\ [][NextVaultTamper]_vars

\* ------------------------------------------------------- vault: claims
\* C4: decryptPrivateKey(encryptPrivateKey(K, W), W) returns exactly K, and
\* loadKeys(W) after saveKeys(pair, W) returns the publicKey and privateKey
\* that were saved.
C4_VaultRoundTrip ==
  /\ (vphase = "opened" /\ vtry = vpass) =>
       (vopened.ok /\ vopened.value = vpair.privateKey)
  /\ (vphase = "loaded" /\ files # NoFiles /\ vtry = vpass) =>
       (loaded.ok /\ loaded.value = vpair)

C4_Witness ==
  /\ vphase = "loaded"
  /\ files # NoFiles
  /\ vtry = vpass
  /\ vpass = <<112, 233>>
  /\ loaded.ok
  /\ loaded.value.privateKey = vpair.privateKey

\* C5: decryptPrivateKey returns a value only for the unmodified output of
\* encryptPrivateKey and the passphrase it was made with; with another
\* passphrase, or with a bit flipped in salt, iv, authTag or ciphertext, it
\* fails with the one authentication error.
C5_VaultTamperRejected ==
  (vphase = "opened" /\ (vtamper # NoTamper \/ vtry # vpass)) =>
    (~vopened.ok /\ vopened.error = "AuthenticationFailure")

\* --------------------------------------------------- batch: operations
\* the mails tried: {"id":1,"subject":"hi"} and {"id":2,"subject":"e-acute"}
EmailSamples ==
  {PlainEmail(<<<<K_id, Number(1)>>, <<K_subject, String(<<104, 105>>)>>>>),
   PlainEmail(<<<<K_id, Number(2)>>, <<K_subject, String(<<233>>)>>>>)}

\* the lists handed to encryptBatch: two to MaxBatch mails
EmailLists == UNION {[1..n -> EmailSamples] : n \in 2..MaxBatch}

InitBatch ==
  /\ bphase = "start"
  /\ bkeys = generateKeyPair(1)
  /\ emails \in EmailLists
  /\ encryptedEmails = Pending
  /\ btamper = NoBatchTamper
  /\ decryptedEmails = <<>>
  /\ EnvelopeIdle
  /\ VaultIdle
  /\ ValidationIdle
  /\ ServerIdle
  /\ VerifyIdle
  /\ SequenceIdle

\* a sender calls encryptBatch(publicKey, emails)
EncryptBatch ==
  /\ bphase = "start"
  /\ \E r \in Seeds :
       encryptedEmails' = encryptBatch(bkeys.publicKey, emails, r, 0)
  /\ bphase' = "encrypted"
  /\ UNCHANGED <<bkeys, emails, btamper, decryptedEmails>>
  /\ UNCHANGED <<envVars, vaultVars, validationVars, serverVars,
                 verifyVars, sequenceVars>>

\* one bit of the envelope of exactly one element is flipped
TamperElement ==
  /\ bphase = "encrypted"
  /\ encryptedEmails.ok
  /\ \E at \in 1..Len(encryptedEmails.value), field \in EnvelopeFields :
       \E e \in {encryptedEmails.value[at].encryption[1]} :
          \E i \in 1..Len(FieldBytes(e, field)), bit \in 0..7 :
            /\ encryptedEmails' =
                 Return([encryptedEmails.value EXCEPT
                           ![at].encryption =
                             Present(TamperEnvelope(e, field, i, bit))])
            /\ btamper' = [at |-> at, field |-> field, byte |-> i, bit |-> bit]
  /\ bphase' = "tampered"
  /\ UNCHANGED <<bkeys, emails, decryptedEmails>>
  /\ UNCHANGED <<envVars, vaultVars, validationVars, serverVars,
                 verifyVars, sequenceVars>>

\* the recipient calls decryptBatch(privateKey, encryptedEmails)
DecryptBatch ==
  /\ bphase \in {"encrypted", "tampered", "mixed"}
  /\ encryptedEmails.ok
  /\ \E now \in Clock :
       decryptedEmails' =
         decryptBatch(bkeys.privateKey, encryptedEmails.value, now)
  /\ bphase' = "decrypted"
  /\ UNCHANGED <<bkeys, emails, encryptedEmails, btamper>>
  /\ UNCHANGED <<envVars, vaultVars, validationVars, serverVars,
                 verifyVars, sequenceVars>>

\* what a list handed to decryptBatch may hold beside encrypted elements:
\* an element without the encrypted member, with encrypted: false, and
\* without the envelope
Markings == {"kept", "unmarked", "marked false", "no envelope"}

Marked(email, marking) ==
  IF marking = "unmarked" THEN [email EXCEPT !.encrypted = Absent]
  ELSE IF marking = "marked false"
    THEN [email EXCEPT !.encrypted = Present(FALSE)]
  ELSE IF marking = "no envelope" THEN [email EXCEPT !.encryption = Absent]
  ELSE email

\* the list given to decryptBatch is a mixed one
Mix ==
  /\ bphase = "encrypted"
  /\ encryptedEmails.ok
  /\ \E marking \in [1..Len(encryptedEmails.value) -> Markings] :
       encryptedEmails' =
         Return(Array([i \in 1..Len(encryptedEmails.value) |->
                         Marked(encryptedEmails.value[i], marking[i])]))
  /\ bphase' = "mixed"
  /\ UNCHANGED <<bkeys, emails, btamper, decryptedEmails>>
  /\ UNCHANGED <<envVars, vaultVars, validationVars, serverVars,
                 verifyVars, sequenceVars>>

NextBatch == EncryptBatch \/ TamperElement \/ DecryptBatch

NextMixedBatch == EncryptBatch \/ Mix \/ DecryptBatch

\* encrypt a list of mails, take the marking or the envelope off some
\* elements, decrypt the list
SpecMixedBatch == InitBatch /\ [][NextMixedBatch]_vars

\* encrypt a list of mails, flip one bit in one element, decrypt the list
SpecBatch == InitBatch /\ [][NextBatch]_vars

\* ------------------------------------------------------- batch: claims
\* element i of the result holds the decrypted content of mail i
DecryptedOk(i) ==
  /\ decryptedEmails[i].error = Absent
  /\ decryptedEmails[i].encrypted = Present(FALSE)
  /\ decryptedEmails[i].fields = emails[i].fields

\* C6: decryptBatch over N elements of which exactly one has a tampered
\* envelope returns N results in input order: the untampered positions hold
\* the decrypted content, and the tampered position, and only it, holds a
\* failure marker.
C6_BatchIndependence ==
  (bphase = "decrypted" /\ btamper # NoBatchTamper) =>
    /\ Len(decryptedEmails) = Len(emails)
    /\ \A i \in 1..Len(decryptedEmails) :
         IF i = btamper.at THEN decryptedEmails[i].error # Absent
         ELSE DecryptedOk(i)

\* decryptBatch passes the element through: !email.encrypted ||
\* !email.encryption
PassedThrough(email) ==
  email.encrypted \in {Absent, Present(FALSE)} \/ email.encryption = Absent

\* C16: decryptBatch returns every element that is not marked encrypted or
\* that has no envelope unchanged at its own position, and leaves the input
\* list and its elements as they were.
C16_PassThroughUnchanged ==
  [][(bphase # "decrypted" /\ bphase' = "decrypted") =>
       /\ encryptedEmails' = encryptedEmails
       /\ Len(decryptedEmails') = Len(encryptedEmails.value)
       /\ \A i \in 1..Len(encryptedEmails.value) :
            PassedThrough(encryptedEmails.value[i]) =>
              decryptedEmails'[i] = encryptedEmails.value[i]]_vars

C16_Witness ==
  /\ bphase = "decrypted"
  /\ Len(decryptedEmails) = 2
  /\ encryptedEmails.value[1].encryption = Absent
  /\ decryptedEmails[1] = encryptedEmails.value[1]
  /\ ~PassedThrough(encryptedEmails.value[2])
  /\ decryptedEmails[2].encrypted = Present(FALSE)
  /\ decryptedEmails[2].decryptedAt # Absent

\* ---------------------------------------------- validation: operations
\* an envelope as encrypt returns it, for the field values that are right
SampleEnvelope ==
  encrypt(generateKeyPair(1).publicKey, String(<<104, 105>>), 11, 1, 0).value

\* the values tried for a field whose right value is good: absent, null,
\* zero, a number, the empty string, the right value, the right value
\* without its last four characters, "AA==" (one byte), "!!!!" (no base64
\* character) and "A!A=" (a character outside the alphabet)
FieldValues(good) ==
  {Undefined, Null, Number(0), Number(7), String(<<>>), String(good),
   String(SubSeq(good, 1, Len(good) - 4)), String(<<65, 65, 61, 61>>),
   String(<<33, 33, 33, 33>>), String(<<65, 33, 65, 61>>)}

\* the arguments tried: objects with each combination of field values, and
\* null, undefined, a number and a string, which have none of the fields
Arguments ==
  {Argument("object", e, n, c) :
     e \in FieldValues(SampleEnvelope.ephemeralPublicKey),
     n \in FieldValues(SampleEnvelope.nonce),
     c \in FieldValues(SampleEnvelope.ciphertext)}
    \cup {Argument(t, Undefined, Undefined, Undefined) :
            t \in {"null", "undefined", "number", "string"}}

InitValidation ==
  /\ vdphase = "start"
  /\ vdInput \in Arguments
  /\ vdResult = Pending
  /\ EnvelopeIdle
  /\ VaultIdle
  /\ BatchIdle
  /\ ServerIdle
  /\ VerifyIdle
  /\ SequenceIdle

\* a consumer calls validateEncryptedData(encryptedData)
Validate ==
  /\ vdphase = "start"
  /\ vdResult' = validateEncryptedData(vdInput)
  /\ vdphase' = "validated"
  /\ UNCHANGED vdInput
  /\ UNCHANGED <<envVars, vaultVars, batchVars, serverVars, verifyVars,
                 sequenceVars>>

NextValidation == Validate

\* validateEncryptedData applied to one argument
SpecValidation == InitValidation /\ [][NextValidation]_vars

\* -------------------------------------------------- validation: claims
\* str is base64 text: groups of four characters of the alphabet, the last
\* group possibly ending in one or two =
WellEncoded(str) ==
  /\ Len(str) % 4 = 0
  /\ \A i \in 1..Len(str) :
       \/ B64Index(str[i]) >= 0 /\ str[i] \notin {45, 95}
       \/ str[i] = 61 /\ i >= Len(str) - 1
            /\ (i = Len(str) - 1 => str[Len(str)] = 61)

\* the number of bytes the field decodes to, -1 when the field is absent,
\* not a string or badly encoded
DecodedLen(value) ==
  IF value.t = "string" /\ WellEncoded(value.v)
    THEN Len(base64Decode(value.v))
  ELSE -1

\* C7: validateEncryptedData returns true exactly when ephemeralPublicKey
\* decodes to 32 bytes, nonce decodes to 12 bytes and ciphertext decodes to
\* a non-empty byte string; for every other input it returns false, and it
\* never raises.
C7_ValidatorExact ==
  vdphase = "validated" =>
    /\ vdResult.ok
    /\ vdResult.value = (/\ vdInput.t = "object"
                         /\ DecodedLen(vdInput.ephemeralPublicKey) = 32
                         /\ DecodedLen(vdInput.nonce) = 12
                         /\ DecodedLen(vdInput.ciphertext) > 0)

\* -------------------------------------------------- server: operations
\* the passphrases of the server runs: two of 16 letters
ServerPassword(k) == Array([i \in 1..16 |-> 97 + ((k * 7 + i) % 26)])

\* the subject of the message with this uid
MailSubject(uid) == IF uid % 2 = 1 THEN <<233>> ELSE <<104, 105>>

\* the passwords sent to POST /api/key/init: none, one of 5 letters, the
\* two of 16 letters, and a number
InitPasswords ==
  {Undefined, String(SubSeq(ServerPassword(1), 1, 5)),
   String(ServerPassword(1)), String(ServerPassword(2)), Number(7)}

\* the values of the query parameter limit: none, "0" and "1"
LimitParams == {Absent, Present(<<48>>), Present(<<49>>)}

\* the values of the query parameter offset: none and "1"
OffsetParams == {Absent, Present(<<49>>)}

\* the ids sent to POST /api/emails/:id/process: "1" and "2"
IdParams == {<<49>>, <<50>>}

\* main() of keygen.js with the command 'generate', which is the command
\* when the process has no argument: a key pair is generated and saved under
\* a random password of 64 hex digits, and the password is written to .env;
\* a is the outcome of the random draws
main(a) ==
  LET Saved(password) ==
        [files |-> saveKeys(generateKeyPair(a), password, a, a),
         envFile |-> Present(password)]
  IN Saved(HexEncode(randomBytes(32, a * 11)))

\* dotenv.config(): a variable the environment has already is kept
dotenv_config(env, file) == IF env # Absent THEN env ELSE file

\* the server is not started; ./keys is empty or holds the files of an
\* earlier POST /api/key/init; ENCRYPTION_PASSWORD is unset or set in the
\* environment of the process; there is no .env
InitServer ==
  /\ running = FALSE
  /\ emailStore = <<>>
  /\ keyPair = Absent
  /\ envPassword \in {Absent, Present(ServerPassword(1))}
  /\ envFile = Absent
  /\ mailbox = <<>>
  /\ request = NoRequest
  /\ response = NoResponse
  /\ calls = <<>>
  /\ files \in {NoFiles,
                saveKeys(generateKeyPair(MaxSeed + 1), ServerPassword(1), 1, 1)}
  /\ vphase = "idle"
  /\ vpair = <<>>
  /\ vpass = <<>>
  /\ blob = <<>>
  /\ vtamper = NoTamper
  /\ vtry = <<>>
  /\ vopened = Pending
  /\ loaded = Pending
  /\ EnvelopeIdle
  /\ BatchIdle
  /\ ValidationIdle
  /\ VerifyIdle
  /\ SequenceIdle

\* the variables no server action changes
ServerFrame ==
  /\ UNCHANGED <<vphase, vpair, vpass, blob, vtamper, vtry, vopened, loaded>>
  /\ UNCHANGED <<envVars, batchVars, validationVars, verifyVars, sequenceVars>>

\* loadExistingKeys(): the key pair in memory afterwards and the calls made;
\* an exception of loadKeys is caught and leaves the key pair as it was
loadExistingKeys(password, keyFiles) ==
  LET Loaded(keys_) ==
        [keyPair |-> IF keys_.ok THEN Present(keys_.value) ELSE keyPair,
         calls |-> <<Call("loadKeys", Absent)>>]
  IN IF password = Absent \/ password = Present(<<>>)
       THEN [keyPair |-> keyPair, calls |-> <<>>]
     ELSE Loaded(loadKeysEnv(password, keyFiles))

\* node src/keygen.js, run by hand before the server is started
Keygen ==
  /\ ~running
  /\ envFile = Absent
  /\ \E generated \in {main(MaxSeed)} :
       /\ files' = generated.files
       /\ envFile' = generated.envFile
  /\ UNCHANGED <<running, emailStore, keyPair, envPassword, mailbox, request,
                 response, calls>>
  /\ ServerFrame

\* the server process starts: the import of keygen.js runs its main(), then
\* dotenv.config() reads .env, then start() calls loadExistingKeys and the
\* server listens
Start ==
  /\ ~running
  /\ running' = TRUE
  /\ \E generated \in {main(1)} :
       /\ files' = generated.files
       /\ envFile' = generated.envFile
       /\ envPassword' = dotenv_config(envPassword, generated.envFile)
       /\ \E out \in {loadExistingKeys(
                         dotenv_config(envPassword, generated.envFile),
                         generated.files)} :
            /\ keyPair' = out.keyPair
            /\ calls' = <<Call("generateKeyPair", Absent),
                          Call("saveKeys", Absent)>> \o out.calls
  /\ UNCHANGED <<emailStore, mailbox, request, response>>
  /\ ServerFrame

\* a message arrives in the mailbox and stays unseen
Deliver ==
  /\ Len(mailbox) < MaxMail
  /\ mailbox' = Append(mailbox,
                        MailboxEmail(Len(mailbox) + 1,
                                     MailSubject(Len(mailbox) + 1)))
  /\ UNCHANGED <<running, emailStore, keyPair, envPassword, envFile, request,
                 response, calls, files>>
  /\ ServerFrame

\* the handler of POST /api/key/init for the body { password }; a is the
\* outcome of the random draws. A password that is no string has no length
\* and gets past the check; pbkdf2Sync then throws inside saveKeys, after
\* the new key pair is in memory and before a file is written
initKey(password, a) ==
  IF ~Truthy(password) \/ (password.t = "string" /\ Len(password.v) < 16)
    THEN [keyPair |-> keyPair, files |-> files, calls |-> <<>>,
          response |-> Response(400, "password too short", <<>>, 0)]
  ELSE IF password.t # "string"
    THEN [keyPair |-> Present(generateKeyPair(a)), files |-> files,
          calls |-> <<Call("generateKeyPair", Absent),
                      Call("saveKeys", Absent)>>,
          response |-> Response(500, "TypeError", <<>>, 0)]
  ELSE [keyPair |-> Present(generateKeyPair(a)),
        files |-> saveKeys(generateKeyPair(a), password.v, a, a),
        calls |-> <<Call("generateKeyPair", Absent),
                    Call("saveKeys", Absent)>>,
        response |-> Response(200, "", <<>>, 0)]

\* POST /api/key/init with body { password }
KeyInit ==
  /\ running
  /\ \E password \in InitPasswords, a \in {MaxSeed} :
       \E out \in {initKey(password, a)} :
         /\ request' = Request("POST /api/key/init", password, Absent, Absent,
                               FALSE, <<>>)
         /\ keyPair' = out.keyPair
         /\ files' = out.files
         /\ calls' = out.calls
         /\ response' = out.response
  /\ UNCHANGED <<running, emailStore, envPassword, envFile, mailbox>>
  /\ ServerFrame

\* the list GET /api/emails answers from: the store, or with decrypted=true
\* and a key pair in memory the store with its elements decrypted; loadKeys
\* throwing makes the answer a 500
listEmails(decrypted) ==
  LET Listed(keys_) ==
        IF ~keys_.ok
          THEN [ok |-> FALSE, value |-> <<>>,
                calls |-> <<Call("loadKeys", Absent)>>]
        ELSE [ok |-> TRUE,
              value |-> Array([i \in 1..Len(emailStore) |->
                                 DecryptListed(keys_.value.privateKey,
                                               emailStore[i])]),
              calls |-> <<Call("loadKeys", Absent)>>
                          \o DecryptCalls(emailStore)]
  IN IF ~decrypted \/ keyPair = Absent
       THEN [ok |-> TRUE, value |-> emailStore, calls |-> <<>>]
     ELSE Listed(loadKeysEnv(envPassword, files))

\* GET /api/emails?limit=&offset=&decrypted=
GetEmails ==
  /\ running
  /\ \E decrypted \in BOOLEAN :
       \E listed \in {listEmails(decrypted)} :
         \E limit \in LimitParams, offset \in OffsetParams :
           /\ request' = Request("GET /api/emails", Undefined, limit, offset,
                                 decrypted, <<>>)
           /\ calls' = listed.calls
           /\ response' =
                IF listed.ok
                  THEN Response(200, "", Page(listed.value, limit, offset),
                                Len(listed.value))
                ELSE Response(500, "loading keys failed", <<>>, 0)
  /\ UNCHANGED <<running, emailStore, keyPair, envPassword, envFile, mailbox,
                 files>>
  /\ ServerFrame

\* the body shared by POST /api/emails/sync and the polling timer: the
\* unseen mails are fetched and, when a key pair is in memory, stored
Fetch(r, now) ==
  LET Stored(newEmails, stored) ==
        [ok |-> stored.ok, value |-> stored.value, error |-> stored.error,
         calls |-> Array([i \in 1..(Len(stored.value) - Len(emailStore)
                                      + (IF stored.ok THEN 0 ELSE 1)) |->
                            Call("encrypt", Absent)]),
         synced |-> Len(newEmails)]
      Fetched(newEmails) ==
        IF keyPair = Absent
          THEN [ok |-> TRUE, value |-> emailStore, error |-> "",
                calls |-> <<>>, synced |-> Len(newEmails)]
        ELSE Stored(newEmails,
                    StoreNew(emailStore, keyPair[1].publicKey, newEmails, 1,
                             r, now))
  IN Fetched(getUnreadEmails(mailbox))

\* POST /api/emails/sync
Sync ==
  /\ running
  /\ Len(emailStore) + Len(mailbox) <= MaxStore
  /\ \E r \in Seeds :
       \E fetched \in {Fetch(r, 0)} :
         /\ request' = Request("POST /api/emails/sync", Undefined, Absent,
                               Absent, FALSE, <<>>)
         /\ emailStore' = fetched.value
         /\ calls' = fetched.calls
         /\ response' = IF fetched.ok
                          THEN Response(200, "", <<>>, Len(fetched.value))
                        ELSE Response(500, fetched.error, <<>>, 0)
  /\ UNCHANGED <<running, keyPair, envPassword, envFile, mailbox, files>>
  /\ ServerFrame

\* the timer of startPolling fires: the mails are stored as by the sync, and
\* no request is answered
Poll ==
  /\ running
  /\ Len(emailStore) + Len(mailbox) <= MaxStore
  /\ \E r \in Seeds :
       \E fetched \in {Fetch(r, 0)} :
         /\ request' = Request("timer", Undefined, Absent, Absent, FALSE, <<>>)
         /\ emailStore' = fetched.value
         /\ calls' = fetched.calls
  /\ UNCHANGED <<running, keyPair, envPassword, envFile, mailbox, response,
                 files>>
  /\ ServerFrame

\* the handler of POST /api/emails/:id/process: the id of the URL is a
\* string and is compared with === to the id and messageId of the stored
\* elements
processEmail(id) ==
  LET called(email) ==
        <<Call("loadKeys", Absent), Call("decrypt", email.encryption)>>
      Parsed(email, parsedEmail) ==
        IF ~parsedEmail.ok
          THEN [calls |-> called(email),
                response |-> Response(500, parsedEmail.error, <<>>, 0)]
        ELSE [calls |-> called(email),
              response |->
                Response(200, "",
                         <<[email EXCEPT
                              !.fields = Spread(@, parsedEmail.value),
                              !.encrypted = Present(FALSE)]>>, 1)]
      Decrypted(email, decryptedContent) ==
        IF ~decryptedContent.ok
          THEN [calls |-> called(email),
                response |-> Response(500, decryptedContent.error, <<>>, 0)]
        ELSE Parsed(email, JSON_parse(decryptedContent.value.v))
      Loaded(email, keys_) ==
        IF ~keys_.ok
          THEN [calls |-> <<Call("loadKeys", Absent)>>,
                response |-> Response(500, keys_.error, <<>>, 0)]
        ELSE Decrypted(email,
                       decrypt(keys_.value.privateKey, email.encryption[1]))
      Found(email) ==
        IF keyPair = Absent
          THEN [calls |-> <<>>,
                response |-> Response(404, "no key loaded", <<>>, 0)]
        ELSE Loaded(email, loadKeysEnv(envPassword, files))
      Find(found) ==
        IF found = {}
          THEN [calls |-> <<>>,
                response |-> Response(404, "no such mail", <<>>, 0)]
        ELSE Found(emailStore[CHOOSE i \in found : \A j \in found : i <= j])
  IN Find({i \in 1..Len(emailStore) :
             \/ GetKey(emailStore[i].fields, K_id) = String(id)
             \/ GetKey(emailStore[i].fields, K_messageId) = String(id)})

\* POST /api/emails/:id/process
Process ==
  /\ running
  /\ \E id \in IdParams :
       \E out \in {processEmail(id)} :
         /\ request' = Request("POST /api/emails/:id/process", Undefined,
                               Absent, Absent, FALSE, id)
         /\ calls' = out.calls
         /\ response' = out.response
  /\ UNCHANGED <<running, emailStore, keyPair, envPassword, envFile, mailbox,
                 files>>
  /\ ServerFrame

NextServer ==
  Keygen \/ Start \/ Deliver \/ KeyInit \/ GetEmails \/ Sync \/ Poll \/ Process

\* the server: start, key initialisation, mail arriving, sync and polling,
\* listing and processing
SpecServer == InitServer /\ [][NextServer]_vars

\* ------------------------------------------------------ server: claims
\* C8: on every path on which a consumer decrypts a stored envelope, the
\* structural validation of that envelope happens before the call to
\* decrypt.
C8_ValidatedBeforeDecrypt ==
  \A i \in 1..Len(calls) :
    calls[i].fn = "decrypt" =>
      \E j \in 1..(i - 1) :
        /\ calls[j].fn = "validateEncryptedData"
        /\ calls[j].arg = calls[i].arg

\* ------------------------------------------------ verification: operations
\* str with the code unit c put in before position i
InsertAt(str, i, c) == SubSeq(str, 1, i - 1) \o <<c>> \o SubSeq(str, i, Len(str))

\* the private keys given to verifyKeyPair: the key of the pair and of the
\* other pair, values that are no strings, the empty string, keys of 31 and
\* of 33 bytes, and texts that are not base64: the key with a "!" inside,
\* with its padding cut off, and with "!!" behind it
PrivateKeyArgs(pair, other) ==
  {String(pair.privateKey), String(other.privateKey), Undefined, Null,
   Number(7), String(<<>>),
   String(base64Encode(Slice(base64Decode(pair.privateKey), 0, KeyLen - 1))),
   String(base64Encode(base64Decode(pair.privateKey) \o <<0>>)),
   String(InsertAt(pair.privateKey, 2, 33)),
   String(SliceButLast(pair.privateKey, 1)),
   String(pair.privateKey \o <<33, 33>>)}

\* the public keys given to verifyKeyPair: the key of the pair and of the
\* other pair, undefined, the empty string, the key with a "!" inside and
\* the key of 31 bytes
VerifyPublicArgs(pair, other) ==
  {String(pair.publicKey), String(other.publicKey), Undefined, String(<<>>),
   String(InsertAt(pair.publicKey, 2, 33)),
   String(base64Encode(Slice(base64Decode(pair.publicKey), 0, KeyLen - 1)))}

InitVerify ==
  /\ vkphase = "start"
  /\ \E pairs \in KeyPairs :
       /\ vkPublic \in VerifyPublicArgs(pairs.A, pairs.B)
       /\ vkPrivate \in PrivateKeyArgs(pairs.A, pairs.B)
  /\ vkResult = FALSE
  /\ SequenceIdle
  /\ ServerIdle
  /\ EnvelopeIdle
  /\ VaultIdle
  /\ BatchIdle
  /\ ValidationIdle

\* verifyKeyPair(publicKey, privateKey)
Verify ==
  /\ vkphase = "start"
  /\ vkphase' = "verified"
  /\ vkResult' = verifyKeyPair(vkPublic, vkPrivate)
  /\ UNCHANGED <<vkPublic, vkPrivate>>
  /\ UNCHANGED <<envVars, vaultVars, batchVars, validationVars, serverVars,
                 sequenceVars>>

NextVerify == Verify

\* verifyKeyPair on matching, mismatched and malformed keys
SpecVerify == InitVerify /\ [][NextVerify]_vars

\* ---------------------------------------------------- verification: claims
\* the value is the base64 text of 32 bytes, as generateKeyPair writes it
WellFormedKey(value) ==
  /\ value.t = "string"
  /\ Len(base64Decode(value.v)) = KeyLen
  /\ base64Encode(base64Decode(value.v)) = value.v

\* the public key is the one derived from the private key
Matching(publicKey, privateKey) ==
  publicKey.v = base64Encode(x25519_getPublicKey(base64Decode(privateKey.v)))

\* C11: verifyKeyPair returns true for every pair produced by
\* generateKeyPair, false when publicKey is not the public point derived
\* from privateKey, and false for any malformed or wrong-length input.
C11_VerifyExact ==
  vkphase = "verified" =>
    vkResult = (/\ WellFormedKey(vkPublic)
                /\ WellFormedKey(vkPrivate)
                /\ Matching(vkPublic, vkPrivate))

\* --------------------------------------------------- sequence: operations
\* the plaintexts of the sequence run: the string a and the byte array of a
\* lone lead byte
SequencePlaintexts ==
  {[t |-> "string", v |-> <<97>>], [t |-> "bytes", v |-> <<195>>]}

InitSequence ==
  /\ recipient \in {generateKeyPair(a) : a \in Seeds}
  /\ envelopes = <<>>
  /\ plaintexts = <<>>
  /\ VerifyIdle
  /\ ServerIdle
  /\ EnvelopeIdle
  /\ VaultIdle
  /\ BatchIdle
  /\ ValidationIdle

\* one more encrypt(recipient.publicKey, plaintext): the two random draws of
\* the call are independent of those of the calls before
EncryptNext ==
  /\ plaintexts = <<>>
  /\ Len(envelopes) < MaxCalls
  /\ \E p \in SequencePlaintexts, eph \in EphSeeds, n \in Seeds :
       envelopes' =
         Append(envelopes,
                [plaintext |-> p, eph |-> eph, n |-> n,
                 sealed |-> encrypt(recipient.publicKey, p, eph, n, 0)])
  /\ UNCHANGED <<recipient, plaintexts>>
  /\ UNCHANGED <<envVars, vaultVars, batchVars, validationVars, serverVars,
                 verifyVars>>

\* decrypt(recipient.privateKey, envelope) for each envelope of the sequence
DecryptEach ==
  /\ plaintexts = <<>>
  /\ envelopes # <<>>
  /\ plaintexts' =
       Array([i \in 1..Len(envelopes) |->
                decrypt(recipient.privateKey, envelopes[i].sealed.value)])
  /\ UNCHANGED <<recipient, envelopes>>
  /\ UNCHANGED <<envVars, vaultVars, batchVars, validationVars, serverVars,
                 verifyVars>>

NextSequence == EncryptNext \/ DecryptEach

\* a sequence of encrypt calls under one recipient key, then the decrypts
SpecSequence == InitSequence /\ [][NextSequence]_vars

ContentInClear(email) == GetKey(email.fields, K_subject) # Undefined

\* C13: each record of emailStore carries the mail content only inside its
\* encryption envelope; no plaintext content field, such as the subject, is
\* held beside the envelope.
C13_ContentOnlyInEnvelope ==
  \A i \in 1..Len(emailStore) :
    emailStore[i].encryption # Absent => ~ContentInClear(emailStore[i])

\* the password of the body is a string of at least 16 characters
AcceptedPassword(password) ==
  password.t = "string" /\ Len(password.v) >= 16

\* C14: POST /api/key/init with a missing password or one shorter than 16
\* characters is answered with 400 and leaves the key pair in memory and the
\* key files as they were; once the server runs, the key pair and the key
\* files change only in a request to this route with a password of at least
\* 16 characters.
C14_ShortPasswordRefused ==
  [][/\ (request'.route = "POST /api/key/init" /\ mailbox' = mailbox
           /\ ~AcceptedPassword(request'.password))
          => (response'.status = 400 /\ keyPair' = keyPair /\ files' = files)
     /\ (running /\ (keyPair' # keyPair \/ files' # files))
          => (request'.route = "POST /api/key/init"
                /\ AcceptedPassword(request'.password))]_vars

\* the limit and the offset of a request to GET /api/emails as numbers
LimitOf(req) == IF req.limit = Absent THEN 20 ELSE ParseInt(req.limit[1])

OffsetOf(req) == IF req.offset = Absent THEN 0 ELSE ParseInt(req.offset[1])

\* C15: GET /api/emails with limit L and offset O (20 and 0 when not given)
\* returns at most L emails, those of the store entries O .. O+L-1 in store
\* order, and a total that is the size of the store.
C15_PageOfStore ==
  (request.route = "GET /api/emails" /\ response.status = 200) =>
    /\ Len(response.emails) <= LimitOf(request)
    /\ Array([i \in 1..Len(response.emails) |-> response.emails[i].encryption])
         = Array([k \in 1..(Min(OffsetOf(request) + LimitOf(request),
                                Len(emailStore)) - OffsetOf(request)) |->
                    emailStore[OffsetOf(request) + k].encryption])
    /\ response.total = Len(emailStore)

\* C17: after any sequence of polls and syncs emailStore holds at most one
\* record per mailbox message id.
C17_OneRecordPerMessage ==
  \A i \in 1..Len(emailStore) : \A j \in (i + 1)..Len(emailStore) :
    GetKey(emailStore[i].fields, K_id) # GetKey(emailStore[j].fields, K_id)

\* the id of the key whose public half is in ./keys/public-key.txt
DiskKeyId ==
  base64Encode(Slice(base64Decode(Trim(readFileSync(files.publicKey))), 0,
                     KeyIdLen))

\* C18: each record of emailStore that is marked encrypted was encrypted
\* under the public key of the key pair that is now in the key files, so
\* that the private key on disk decrypts it.
C18_StoreMatchesDiskKey ==
  \A i \in 1..Len(emailStore) :
    emailStore[i].encrypted = Present(TRUE) =>
      /\ files.publicKey.exists
      /\ files.privateKey.exists
      /\ emailStore[i].encryption[1].keyId = DiskKeyId

\* C19: the key files and the password of .env change only in a run of the
\* key generator from the command line and in a POST /api/key/init that is
\* answered with success; the start of the server leaves them as they are.
C19_KeysChangeOnlyOnGeneration ==
  [][(files' # files \/ envFile' # envFile) =>
       \/ ~running /\ ~running'
       \/ /\ running
          /\ request'.route = "POST /api/key/init"
          /\ response'.status = 200]_vars

\* what loadKeys(process.env.ENCRYPTION_PASSWORD) gives is a private key
\* whose public key is this one
LoadsPairOf(publicKey, loaded_) ==
  /\ loaded_.ok
  /\ verifyKeyPair(String(publicKey), String(loaded_.value.privateKey))

\* C20: whenever the key pair in memory is not null, loadKeys with the
\* configured ENCRYPTION_PASSWORD succeeds and returns a private key that
\* matches the public key in memory.
C20_MemoryKeyLoadable ==
  keyPair # Absent =>
    LoadsPairOf(keyPair[1].publicKey, loadKeysEnv(envPassword, files))

=============================================================================
